---- MODULE Spec2Model ----
(***************************************************************************)
(* GitHub repository monitoring of ARL: the schedule registry (routes/     *)
(* github_repo_scheduler.py), the periodic tick and the task submitter     *)
(* (utils/github_repo_task.py) and the task body (tasks/github.py), over   *)
(* the three store collections github_repo_scheduler, github_repo_task and *)
(* github_repo_event.                                                      *)
(*                                                                         *)
(* Time is in whole seconds.  A display date ("%Y-%m-%d %H:%M:%S") is the  *)
(* one-element sequence <<t>> of the second it shows, and the sentinel     *)
(* "-" is the empty sequence.                                              *)
(***************************************************************************)
EXTENDS Integers, Sequences, FiniteSets, TLC

----------------------------------------------------------------------------
(* Bounds of the model *)

\* schedule entries ever created (ids are never reused)
MaxIds == 2
\* task records ever inserted (ids are never reused)
MaxTasks == 2
\* the readings of the clock, epochs far above the cooldown: 860 is inside the
\* lookahead window of both cron expressions, 880 is 20 s later and still inside,
\* 960 is outside both windows, 1060 is 200 s after the first and inside the
\* window of the 3-minute expression
Instants == <<860, 880, 960, 1060>>
StartTime == Instants[1]
\* concurrent invocations of the periodic driver
NTicks == 2

Ids == 1..MaxIds
TaskIds == 1..MaxTasks
Ticks == 1..NTicks
\* concurrent workers of the task queue
NWorkers == 2
Workers == 1..NWorkers

----------------------------------------------------------------------------
(* Values *)

RUNNING == "running"
STOP == "stop"
WAITING == "waiting"
DONE == "done"
ERROR == "error"

Null == [null |-> TRUE]
Dash == <<>>

\* utils.time2date / utils.curr_date: the display form of a second
time2date(t) == <<t>>

\* str.strip() on the strings the model uses
Strip(s) == IF s = " " THEN "" ELSE IF s = " o2 " THEN "o2" ELSE s

Cron5 == "*/5 * * * *"
Cron3 == "*/3 * * * *"
ValidCrons == {Cron3, Cron5}
CronInputs == ValidCrons \cup {"bad"}

DefaultEvents == <<"PushEvent", "IssuesEvent", "PullRequestEvent">>

\* CronTab(cron): the period of the expression, in seconds
CronPeriod(cron) == IF cron = Cron5 THEN 300 ELSE 180

\* CronTab(cron).next(now): seconds from now to the next fire instant
\* (strictly in the future, at most one period)
CronNext(cron, t) == CronPeriod(cron) - (t % CronPeriod(cron))

\* utils.check_cron_interval(cron): TRUE when the expression is accepted
check_cron_interval(cron) == cron \in ValidCrons

Abs(x) == IF x < 0 THEN -x ELSE x

----------------------------------------------------------------------------
VARIABLES
    now,        \* time.time()
    sched,      \* collection github_repo_scheduler: id -> document or Null
    nextId,     \* the next _id insert_one gives a schedule entry
    tasks,      \* collection github_repo_task: id -> document or Null
    nextTask,   \* the next _id insert_one gives a task
    events,     \* collection github_repo_event: set of documents
    queue,      \* work enqueued on the worker substrate (task ids)
    api,        \* the route handler in progress
    tick,       \* the invocations of github_repo_scheduler
    config,     \* Config: which settings are set
    worker,     \* the executions of github_repo_monitor_task
    notified,   \* the webhook calls made so far
    stopped,    \* history: the entries whose stop has completed, no recover called since
    push,       \* the call of GithubTaskMonitor.push_msg in progress
    report      \* the input and the output of the report builders

vars == <<now, sched, nextId, tasks, nextTask, events, queue, api, tick,
          config, worker, notified, stopped, push, report>>

NoItem == [id |-> 0, doc |-> Null]

ApiIdle == [op |-> "idle", pc |-> "idle", ids |-> <<>>, i |-> 0, item |-> NoItem, ret |-> "none"]

\* the handler op, called on ids, has returned ret to its caller
ApiReturn(op, ids, ret) ==
    [op |-> op, pc |-> "return", ids |-> ids, i |-> 0, item |-> NoItem, ret |-> ret]

\* after is history: the entries of stopped when the tick started, less those
\* recover has been called on since
TickIdle == [pc |-> "idle", items |-> <<>>, i |-> 0, item |-> NoItem, after |-> {}]

\* http and sent are history: the status of the response the fetch received
\* (0: the call raised, -1: no call) and how the notification ended
WorkerIdle ==
    [pc |-> "idle", task_id |-> 0, scheduler_id |-> 0, events |-> <<>>, i |-> 0,
     http |-> -1, sent |-> "none"]

\* new_results, and whether Config holds the settings of each channel, are the
\* inputs of the call; results lists how each channel attempted so far ended,
\* calls the channels a message was sent on
PushIdle ==
    [pc |-> "idle", new_results |-> <<>>, dingding |-> FALSE, email |-> FALSE,
     results |-> <<>>, calls |-> <<>>]

\* no report built, nothing to report on
ReportIdle == [events |-> <<>>, markdown |-> <<>>, new_results |-> <<>>, html |-> <<>>]

Init ==
    /\ now = StartTime
    /\ sched = [k \in Ids |-> Null]
    /\ nextId = 1
    /\ tasks = [k \in TaskIds |-> Null]
    /\ nextTask = 1
    /\ events = {}
    /\ queue = {}
    /\ api = ApiIdle
    /\ tick = [t \in Ticks |-> TickIdle]
    /\ config \in [GITHUB_TOKEN : BOOLEAN, DINGTALK_WEBHOOK_URL : BOOLEAN]
    /\ worker = [w \in Workers |-> WorkerIdle]
    /\ notified = {}
    /\ stopped = {}
    /\ push = PushIdle
    /\ report = ReportIdle

----------------------------------------------------------------------------
(* The store *)

\* find_one({"_id": id}) on github_repo_scheduler
find_github_repo_scheduler(id) ==
    IF id \in Ids /\ sched[id] # Null THEN [id |-> id, doc |-> sched[id]] ELSE NoItem

\* find_one_and_replace({"_id": item._id}, item): no upsert
find_one_and_replace(item) ==
    IF item.id \in Ids /\ sched[item.id] # Null
        THEN [sched EXCEPT ![item.id] = item.doc]
        ELSE sched

\* list(find()) on github_repo_scheduler, in _id order
RECURSIVE FindFrom(_)
FindFrom(k) ==
    IF k > MaxIds THEN <<>>
    ELSE IF sched[k] # Null THEN <<[id |-> k, doc |-> sched[k]]>> \o FindFrom(k + 1)
    ELSE FindFrom(k + 1)

FindAll == FindFrom(1)

----------------------------------------------------------------------------
(* The clock *)

TaskVars == <<config, worker, notified, push, report>>
HistVars == <<stopped>>

AdvanceTime ==
    /\ \E i \in 1..(Len(Instants) - 1) : now = Instants[i] /\ now' = Instants[i + 1]
    /\ UNCHANGED <<sched, nextId, tasks, nextTask, events, queue, api, tick, TaskVars, HistVars>>

----------------------------------------------------------------------------
(* Route handlers of routes/github_repo_scheduler.py.  One request is in   *)
(* progress at a time; each step is one store operation of the handler.    *)

OtherVars == <<nextTask, queue, TaskVars>>
Range(q) == {q[i] : i \in 1..Len(q)}

NameInputs == {"n1"}
OwnerInputs == {"o1", " "}
RepoInputs == {"r1", ""}
EventInputs == {<<>>, <<"ReleaseEvent">>}

\* ARLGithubRepoScheduler.post: the document it builds
NewEntry(name, owner, repo, cron, mev) ==
    [name |-> name,
     repo_owner |-> owner,
     repo_name |-> repo,
     cron |-> cron,
     monitored_events |-> IF mev = <<>> THEN DefaultEvents ELSE mev,
     run_number |-> 0,
     last_run_date |-> Dash,
     last_run_time |-> 0,
     next_run_date |-> time2date(now + CronNext(cron, now)),
     status |-> RUNNING]

\* ARLGithubRepoScheduler.post without the validation of the cron expression
Create_NoCronCheck(name, owner, repo, cron, mev) ==
    /\ api.pc = "idle"
    /\ nextId <= MaxIds
    /\ IF Strip(owner) = "" \/ Strip(repo) = ""
         THEN /\ api' = ApiReturn("create", <<>>, "Error")
              /\ UNCHANGED <<sched, nextId>>
         ELSE /\ sched' = [sched EXCEPT ![nextId] =
                              NewEntry(name, Strip(owner), Strip(repo), cron, mev)]
              /\ nextId' = nextId + 1
              /\ api' = ApiReturn("create", <<nextId>>, "Success")
    /\ UNCHANGED <<now, tasks, events, OtherVars, tick, stopped>>

\* ARLGithubRepoScheduler.post
Create(name, owner, repo, cron, mev) ==
    /\ api.pc = "idle"
    /\ nextId <= MaxIds
    /\ IF Strip(owner) = "" \/ Strip(repo) = ""
         THEN /\ api' = ApiReturn("create", <<>>, "Error")
              /\ UNCHANGED <<sched, nextId>>
         ELSE IF ~check_cron_interval(cron)
         THEN /\ api' = ApiReturn("create", <<>>, "CronError")
              /\ UNCHANGED <<sched, nextId>>
         ELSE /\ sched' = [sched EXCEPT ![nextId] =
                              NewEntry(name, Strip(owner), Strip(repo), cron, mev)]
              /\ nextId' = nextId + 1
              /\ api' = ApiReturn("create", <<nextId>>, "Success")
    /\ UNCHANGED <<now, tasks, events, OtherVars, tick, stopped>>

\* the caller has the response
ApiDone ==
    /\ api.pc = "return"
    /\ api' = ApiIdle
    /\ UNCHANGED <<now, sched, nextId, tasks, events, OtherVars, tick, stopped>>

IdLists == {<<a>> : a \in Ids} \cup {<<a, b>> : a \in Ids, b \in Ids}

\* the handler goes on to the next id of its list, or returns Success
ApiNextId ==
    IF api.i < Len(api.ids)
        THEN [api EXCEPT !.pc = "check", !.i = api.i + 1, !.item = NoItem]
        ELSE ApiReturn(api.op, api.ids, "Success")

\* stop_github_repo_task that also forgets the last run
stop_github_repo_task_ForgetsRun(item) ==
    [item EXCEPT !.doc.status = STOP, !.doc.next_run_date = Dash,
                 !.doc.last_run_date = Dash]

\* stop_github_repo_task: the document it writes back
stop_github_repo_task(item) ==
    [item EXCEPT !.doc.status = STOP, !.doc.next_run_date = Dash]

\* recover_github_repo_task: the document it writes back
recover_github_repo_task(item) ==
    [item EXCEPT !.doc.status = RUNNING,
                 !.doc.next_run_date = time2date(now + CronNext(item.doc.cron, now))]

\* StopGithubRepoScheduler.post: request received
StopPost(ids) ==
    /\ api.pc = "idle"
    /\ api' = [op |-> "stop", pc |-> "check", ids |-> ids, i |-> 1,
               item |-> NoItem, ret |-> "none"]
    /\ UNCHANGED <<now, sched, nextId, tasks, events, OtherVars, tick, stopped>>

\* StopCheck without the check of the status
StopCheck_NoStatusCheck ==
    /\ api.op = "stop" /\ api.pc = "check"
    /\ LET item == find_github_repo_scheduler(api.ids[api.i]) IN
         api' = IF item = NoItem THEN ApiReturn(api.op, api.ids, "JobNotFound")
                ELSE [api EXCEPT !.pc = "find"]
    /\ UNCHANGED <<now, sched, nextId, tasks, events, OtherVars, tick, stopped>>

\* StopGithubRepoScheduler.post: find the entry and check its status
StopCheck ==
    /\ api.op = "stop" /\ api.pc = "check"
    /\ LET item == find_github_repo_scheduler(api.ids[api.i]) IN
         api' = IF item = NoItem THEN ApiReturn(api.op, api.ids, "JobNotFound")
                ELSE IF item.doc.status # RUNNING
                  THEN ApiReturn(api.op, api.ids, "SchedulerStatusNotRunning")
                ELSE [api EXCEPT !.pc = "find"]
    /\ UNCHANGED <<now, sched, nextId, tasks, events, OtherVars, tick, stopped>>

\* stop_github_repo_task: find the entry again and change the copy
StopFind ==
    /\ api.op = "stop" /\ api.pc = "find"
    /\ LET item == find_github_repo_scheduler(api.ids[api.i]) IN
         api' = IF item = NoItem THEN ApiNextId
                ELSE [api EXCEPT !.pc = "replace", !.item = stop_github_repo_task(item)]
    /\ UNCHANGED <<now, sched, nextId, tasks, events, OtherVars, tick, stopped>>

\* stop_github_repo_task: write the copy back
StopReplace ==
    /\ api.op = "stop" /\ api.pc = "replace"
    /\ sched' = find_one_and_replace(api.item)
    /\ api' = ApiNextId
    /\ stopped' = IF find_one_and_replace(api.item) # sched
                   THEN stopped \cup {api.item.id} ELSE stopped
    /\ UNCHANGED <<now, nextId, tasks, events, OtherVars, tick>>

\* RecoverGithubRepoScheduler.post: request received
RecoverPost(ids) ==
    /\ api.pc = "idle"
    /\ api' = [op |-> "recover", pc |-> "check", ids |-> ids, i |-> 1,
               item |-> NoItem, ret |-> "none"]
    /\ stopped' = stopped \ Range(ids)
    /\ tick' = [t \in Ticks |-> [tick[t] EXCEPT !.after = @ \ Range(ids)]]
    /\ UNCHANGED <<now, sched, nextId, tasks, events, OtherVars>>

\* RecoverCheck with continue in place of return: an id that is not found or
\* not stopped is passed over
RecoverCheck_SkipsBad ==
    /\ api.op = "recover" /\ api.pc = "check"
    /\ LET item == find_github_repo_scheduler(api.ids[api.i]) IN
         api' = IF item = NoItem \/ item.doc.status # STOP THEN ApiNextId
                ELSE [api EXCEPT !.pc = "find"]
    /\ UNCHANGED <<now, sched, nextId, tasks, events, OtherVars, tick, stopped>>

\* RecoverGithubRepoScheduler.post: find the entry and check its status
RecoverCheck ==
    /\ api.op = "recover" /\ api.pc = "check"
    /\ LET item == find_github_repo_scheduler(api.ids[api.i]) IN
         api' = IF item = NoItem THEN ApiReturn(api.op, api.ids, "JobNotFound")
                ELSE IF item.doc.status # STOP
                  THEN ApiReturn(api.op, api.ids, "SchedulerStatusNotStop")
                ELSE [api EXCEPT !.pc = "find"]
    /\ UNCHANGED <<now, sched, nextId, tasks, events, OtherVars, tick, stopped>>

\* recover_github_repo_task: find the entry again and change the copy
RecoverFind ==
    /\ api.op = "recover" /\ api.pc = "find"
    /\ LET item == find_github_repo_scheduler(api.ids[api.i]) IN
         api' = IF item = NoItem THEN ApiNextId
                ELSE [api EXCEPT !.pc = "replace", !.item = recover_github_repo_task(item)]
    /\ UNCHANGED <<now, sched, nextId, tasks, events, OtherVars, tick, stopped>>

\* recover_github_repo_task: write the copy back
RecoverReplace ==
    /\ api.op = "recover" /\ api.pc = "replace"
    /\ sched' = find_one_and_replace(api.item)
    /\ api' = ApiNextId
    /\ UNCHANGED <<now, nextId, tasks, events, OtherVars, tick, stopped>>

\* DeleteGithubRepoScheduler.post: request received
DeletePost(ids) ==
    /\ api.pc = "idle"
    /\ api' = [op |-> "delete", pc |-> "check", ids |-> ids, i |-> 1,
               item |-> NoItem, ret |-> "none"]
    /\ UNCHANGED <<now, sched, nextId, tasks, events, OtherVars, tick, stopped>>

\* DeleteGithubRepoScheduler.post: the first loop, every id must be found
DeleteCheck ==
    /\ api.op = "delete" /\ api.pc = "check"
    /\ api' = IF find_github_repo_scheduler(api.ids[api.i]) = NoItem
                THEN ApiReturn(api.op, api.ids, "JobNotFound")
              ELSE IF api.i < Len(api.ids) THEN [api EXCEPT !.i = api.i + 1]
              ELSE [api EXCEPT !.pc = "scheduler", !.i = 1]
    /\ UNCHANGED <<now, sched, nextId, tasks, events, OtherVars, tick, stopped>>

\* delete_github_repo_scheduler: delete_one on github_repo_scheduler
DeleteScheduler ==
    /\ api.op = "delete" /\ api.pc = "scheduler"
    /\ sched' = [sched EXCEPT ![api.ids[api.i]] = Null]
    /\ api' = [api EXCEPT !.pc = "events"]
    /\ UNCHANGED <<now, nextId, tasks, events, OtherVars, tick, stopped>>

\* DeleteEvents with a filter that matches no event
DeleteEvents_MatchesNone ==
    /\ api.op = "delete" /\ api.pc = "events"
    /\ events' = events
    /\ api' = [api EXCEPT !.pc = "tasks"]
    /\ UNCHANGED <<now, sched, nextId, tasks, OtherVars, tick, stopped>>

\* delete_github_repo_scheduler: delete_many on github_repo_event
DeleteEvents ==
    /\ api.op = "delete" /\ api.pc = "events"
    /\ events' = {e \in events : e.github_repo_scheduler_id # api.ids[api.i]}
    /\ api' = [api EXCEPT !.pc = "tasks"]
    /\ UNCHANGED <<now, sched, nextId, tasks, OtherVars, tick, stopped>>

\* delete_github_repo_scheduler: delete_many on github_repo_task
DeleteTasks ==
    /\ api.op = "delete" /\ api.pc = "tasks"
    /\ tasks' = [k \in TaskIds |->
                    IF tasks[k] # Null /\ tasks[k].github_repo_scheduler_id = api.ids[api.i]
                        THEN Null ELSE tasks[k]]
    /\ api' = IF api.i < Len(api.ids)
                THEN [api EXCEPT !.pc = "scheduler", !.i = api.i + 1]
                ELSE ApiReturn(api.op, api.ids, "Success")
    /\ UNCHANGED <<now, sched, nextId, events, OtherVars, tick, stopped>>

\* the request bodies of UpdateGithubRepoScheduler.post the model sends
\* ("" and <<>> are fields the request leaves out)
UpdateArgs ==
    { [name |-> "", repo_owner |-> "", repo_name |-> "", cron |-> "", monitored_events |-> <<>>],
      [name |-> "n2", repo_owner |-> "", repo_name |-> "", cron |-> "bad", monitored_events |-> <<>>],
      [name |-> "", repo_owner |-> " o2 ", repo_name |-> "", cron |-> Cron3, monitored_events |-> <<>>],
      [name |-> "n2", repo_owner |-> "", repo_name |-> "", cron |-> "",
       monitored_events |-> <<"ReleaseEvent">>] }

\* UpdateMerge that merges the other fields and keeps the old expression
\* when the cron expression is refused
UpdateMerge_KeepsOnBadCron(item, args) ==
    LET a == IF args.name # "" THEN [item EXCEPT !.doc.name = args.name] ELSE item
        b == IF args.repo_owner # ""
               THEN [a EXCEPT !.doc.repo_owner = Strip(args.repo_owner)] ELSE a
        c == IF args.repo_name # ""
               THEN [b EXCEPT !.doc.repo_name = Strip(args.repo_name)] ELSE b
        d == IF args.monitored_events # <<>>
               THEN [c EXCEPT !.doc.monitored_events = args.monitored_events] ELSE c
    IN  IF args.cron = "" \/ ~check_cron_interval(args.cron) THEN d
        ELSE [d EXCEPT !.doc.next_run_date = time2date(now + CronNext(args.cron, now)),
                       !.doc.cron = args.cron]

\* UpdateGithubRepoScheduler.post, lines 155-174: the copy after the merge,
\* or Null when the cron expression is refused
UpdateMerge(item, args) ==
    LET a == IF args.name # "" THEN [item EXCEPT !.doc.name = args.name] ELSE item
        b == IF args.repo_owner # ""
               THEN [a EXCEPT !.doc.repo_owner = Strip(args.repo_owner)] ELSE a
        c == IF args.repo_name # ""
               THEN [b EXCEPT !.doc.repo_name = Strip(args.repo_name)] ELSE b
        d == IF args.monitored_events # <<>>
               THEN [c EXCEPT !.doc.monitored_events = args.monitored_events] ELSE c
    IN  IF args.cron = "" THEN d
        ELSE IF ~check_cron_interval(args.cron) THEN NoItem
        ELSE [d EXCEPT !.doc.next_run_date = time2date(now + CronNext(args.cron, now)),
                       !.doc.cron = args.cron]

\* UpdateGithubRepoScheduler.post: find the entry and merge the request into the copy
UpdateFind(id, args) ==
    /\ api.pc = "idle"
    /\ LET item == find_github_repo_scheduler(id) IN
         api' = IF item = NoItem THEN ApiReturn("update", <<id>>, "JobNotFound")
                ELSE IF UpdateMerge(item, args) = NoItem
                  THEN ApiReturn("update", <<id>>, "CronError")
                ELSE [op |-> "update", pc |-> "replace", ids |-> <<id>>, i |-> 1,
                      item |-> UpdateMerge(item, args), ret |-> "none"]
    /\ UNCHANGED <<now, sched, nextId, tasks, events, OtherVars, tick, stopped>>

\* UpdateGithubRepoScheduler.post: write the copy back
UpdateReplace ==
    /\ api.op = "update" /\ api.pc = "replace"
    /\ sched' = find_one_and_replace(api.item)
    /\ api' = ApiReturn(api.op, api.ids, "Success")
    /\ UNCHANGED <<now, nextId, tasks, events, OtherVars, tick, stopped>>

----------------------------------------------------------------------------
(* utils/github_repo_task.py: the submitter and the periodic tick *)

\* which operations of one submit succeed (TRUE) or raise (FALSE)
SubmitFaults == [insert : BOOLEAN, enqueue : BOOLEAN, update : BOOLEAN, delete : BOOLEAN]

\* github_repo_cron_run, lines 60-68: the task document of an entry
TaskData(item) ==
    [name |-> <<"GitHub repo monitor", item.doc.name>>,
     repo_owner |-> item.doc.repo_owner,
     repo_name |-> item.doc.repo_name,
     start_time |-> Dash,
     end_time |-> Dash,
     github_repo_scheduler_id |-> item.id,
     status |-> WAITING,
     celery_id |-> "",
     statistic |-> Null]

\* submit_github_repo_task without the delete_one of its except branch
submit_github_repo_task_NoRollback(task_data, f) ==
    LET inserted == [tasks EXCEPT ![nextTask] = task_data]
        enqueued == IF f.enqueue
                      THEN queue \cup {[task_id |-> nextTask,
                                        scheduler_id |-> task_data.github_repo_scheduler_id]}
                      ELSE queue
    IN  IF ~f.insert
          THEN [tasks |-> tasks, queue |-> queue, nextTask |-> nextTask, end |-> "raise"]
        ELSE IF f.enqueue /\ f.update
          THEN [tasks |-> [inserted EXCEPT ![nextTask].celery_id = "celery"],
                queue |-> enqueued, nextTask |-> nextTask + 1, end |-> "ok"]
        ELSE [tasks |-> inserted, queue |-> enqueued,
              nextTask |-> nextTask + 1, end |-> "error"]

\* submit_github_repo_task(task_data) under the faults f: the task collection and
\* the queue it leaves, and how it ends: "ok" (returns task_data), "error"
\* (returns str(e)) or "raise"
submit_github_repo_task(task_data, f) ==
    LET inserted == [tasks EXCEPT ![nextTask] = task_data]
        enqueued == IF f.enqueue
                      THEN queue \cup {[task_id |-> nextTask,
                                        scheduler_id |-> task_data.github_repo_scheduler_id]}
                      ELSE queue
    IN  IF ~f.insert
          THEN [tasks |-> tasks, queue |-> queue, nextTask |-> nextTask, end |-> "raise"]
        ELSE IF f.enqueue /\ f.update
          THEN [tasks |-> [inserted EXCEPT ![nextTask].celery_id = "celery"],
                queue |-> enqueued, nextTask |-> nextTask + 1, end |-> "ok"]
        ELSE IF f.delete
          THEN [tasks |-> tasks, queue |-> enqueued,
                nextTask |-> nextTask + 1, end |-> "error"]
        ELSE [tasks |-> inserted, queue |-> enqueued,
              nextTask |-> nextTask + 1, end |-> "raise"]

\* ShouldRun without the cooldown
ShouldRun_NoCooldown(doc) ==
    /\ doc.status = RUNNING
    /\ CronNext(doc.cron, now) < 60

\* ShouldRun with a cooldown of 3 seconds in place of 3 minutes
ShouldRun_ShortCooldown(doc) ==
    /\ doc.status = RUNNING
    /\ CronNext(doc.cron, now) < 60
    /\ Abs(now - doc.last_run_time) > 3

\* github_repo_scheduler, lines 94-101: the entry is due
ShouldRun(doc) ==
    /\ doc.status = RUNNING
    /\ CronNext(doc.cron, now) < 60
    /\ Abs(now - doc.last_run_time) > 60 * 3

\* github_repo_cron_run, lines 74-80: the copy of the entry after a run
github_repo_cron_run(item) ==
    [item EXCEPT !.doc.run_number = item.doc.run_number + 1,
                 !.doc.last_run_date = time2date(now),
                 !.doc.last_run_time = now,
                 !.doc.next_run_date =
                     time2date((now + 61) + CronNext(item.doc.cron, now + 61) - 60)]

\* the loop of github_repo_scheduler goes on to the next entry, or ends
TickNextItem(t) ==
    IF tick[t].i < Len(tick[t].items)
        THEN [tick[t] EXCEPT !.pc = "eval", !.i = tick[t].i + 1, !.item = NoItem]
        ELSE TickIdle

\* TickFind under a lock: a tick starts only while no other tick runs
TickFind_Locked(t) ==
    /\ tick[t].pc = "idle"
    /\ \A u \in Ticks \ {t} : tick[u].pc = "idle"
    /\ tick' = [tick EXCEPT ![t] =
                   IF FindAll = <<>> THEN TickIdle
                   ELSE [pc |-> "eval", items |-> FindAll, i |-> 1, item |-> NoItem,
                         after |-> stopped]]
    /\ UNCHANGED <<now, sched, nextId, tasks, nextTask, events, queue, api, TaskVars, stopped>>

\* github_repo_scheduler, line 91: read every entry
TickFind(t) ==
    /\ tick[t].pc = "idle"
    /\ tick' = [tick EXCEPT ![t] =
                   IF FindAll = <<>> THEN TickIdle
                   ELSE [pc |-> "eval", items |-> FindAll, i |-> 1, item |-> NoItem,
                         after |-> stopped]]
    /\ UNCHANGED <<now, sched, nextId, tasks, nextTask, events, queue, api, TaskVars, stopped>>

\* github_repo_scheduler, lines 93-104: decide whether the entry runs
TickEval(t) ==
    /\ tick[t].pc = "eval"
    /\ LET item == tick[t].items[tick[t].i] IN
         tick' = [tick EXCEPT ![t] =
                     IF item.doc.cron \in ValidCrons /\ ShouldRun(item.doc)
                         THEN [tick[t] EXCEPT !.pc = "submit", !.item = item]
                         ELSE TickNextItem(t)]
    /\ UNCHANGED <<now, sched, nextId, tasks, nextTask, events, queue, api, TaskVars, stopped>>

\* github_repo_cron_run, line 71: submit the task of the entry
TickSubmit(t, f) ==
    /\ tick[t].pc = "submit"
    /\ nextTask <= MaxTasks
    /\ LET r == submit_github_repo_task(TaskData(tick[t].item), f) IN
         /\ tasks' = r.tasks
         /\ queue' = r.queue
         /\ nextTask' = r.nextTask
         /\ tick' = [tick EXCEPT ![t] =
                        IF r.end = "raise" THEN TickNextItem(t)
                        ELSE [tick[t] EXCEPT !.pc = "replace"]]
    /\ UNCHANGED <<now, sched, nextId, events, api, TaskVars, stopped>>

\* TickReplace without the except clause of the loop: the exception of the
\* write ends the tick
TickReplace_RaiseAborts(t, ok) ==
    /\ tick[t].pc = "replace"
    /\ sched' = IF ok THEN find_one_and_replace(github_repo_cron_run(tick[t].item)) ELSE sched
    /\ tick' = [tick EXCEPT ![t] = IF ok THEN TickNextItem(t) ELSE TickIdle]
    /\ UNCHANGED <<now, nextId, tasks, nextTask, events, queue, api, TaskVars, stopped>>

\* github_repo_cron_run, lines 74-83: update the copy and write it back
\* (ok = FALSE: the store raises)
TickReplace(t, ok) ==
    /\ tick[t].pc = "replace"
    /\ sched' = IF ok THEN find_one_and_replace(github_repo_cron_run(tick[t].item)) ELSE sched
    /\ tick' = [tick EXCEPT ![t] = TickNextItem(t)]
    /\ UNCHANGED <<now, nextId, tasks, nextTask, events, queue, api, TaskVars, stopped>>

----------------------------------------------------------------------------
(* tasks/github.py: github_repo_monitor_task and GithubRepoMonitorTask.    *)
(* Each step is one store operation or one external call; ok = FALSE is    *)
(* the store raising on that operation.                                    *)

\* events of one response of the events endpoint
MaxBatch == 2

\* GithubRepoMonitor.__init__, lines 89-97: the types monitored by default
MonitorDefaultEvents ==
    {"PushEvent", "IssuesEvent", "PullRequestEvent", "CreateEvent", "DeleteEvent",
     "ReleaseEvent"}

\* the events the endpoint can list; a response lists events created up to now
RawEvents ==
    { [event_id |-> "evt-1", type |-> "PushEvent", created_at |-> 700],
      [event_id |-> "evt-2", type |-> "ReleaseEvent", created_at |-> 900],
      [event_id |-> "evt-3", type |-> "ForkEvent", created_at |-> 900] }

Batches == UNION {[1..n -> RawEvents] : n \in 0..MaxBatch}

\* what http_req gives: a 200 with data, another status, or an exception
HttpResponses ==
    {[status |-> 200, data |-> b] : b \in Batches}
        \cup {[status |-> 500, data |-> <<>>], [status |-> 0, data |-> <<>>]}

\* the phase label f"saving {len(self.events)} events"
SavingLabel(n) ==
    CASE n = 0 -> "saving 0 events"
      [] n = 1 -> "saving 1 events"
      [] n = 2 -> "saving 2 events"
      [] OTHER -> "saving 3 events"

HasTask(tid) == tid \in TaskIds /\ tasks[tid] # Null

\* GithubRepoMonitorTask.update_status: update_one, a no-op on a missing document
update_status(tid, value) ==
    IF HasTask(tid) THEN [tasks EXCEPT ![tid].status = value] ELSE tasks

\* GithubRepoMonitorTask.set_start_time
set_start_time(tid) ==
    IF HasTask(tid) THEN [tasks EXCEPT ![tid].start_time = time2date(now)] ELSE tasks

\* GithubRepoMonitorTask.set_end_time
set_end_time(tid) ==
    IF HasTask(tid) THEN [tasks EXCEPT ![tid].end_time = time2date(now)] ELSE tasks

\* GithubRepoMonitorTask.statistic
statistic(tid, evs) ==
    IF HasTask(tid) THEN [tasks EXCEPT ![tid].statistic = [event_count |-> Len(evs)]]
    ELSE tasks

\* the order of the display dates as strings: "-" sorts before every date
DateLE(a, b) == a = Dash \/ (b # Dash /\ a[1] <= b[1])

\* get_last_check_time without the look-up of the last DONE task
get_last_check_time_AlwaysHourAgo(sid) == now - 3600

\* GithubRepoMonitorTask.get_last_check_time
get_last_check_time(sid) ==
    LET done == {k \in TaskIds : /\ tasks[k] # Null
                                 /\ tasks[k].github_repo_scheduler_id = sid
                                 /\ tasks[k].status = DONE}
        last == CHOOSE k \in done : \A j \in done : DateLE(tasks[j].end_time, tasks[k].end_time)
    IN  IF done # {} /\ tasks[last].end_time # Dash
          THEN tasks[last].end_time[1]
          ELSE now - 3600

\* GithubRepoMonitor.fetch_events, lines 136-150: the events kept of a response
RECURSIVE FilterEvents(_, _, _)
FilterEvents(data, monitored, since) ==
    IF data = <<>> THEN <<>>
    ELSE IF Head(data).type \notin monitored \/ Head(data).created_at <= since
      THEN FilterEvents(Tail(data), monitored, since)
      ELSE <<Head(data)>> \o FilterEvents(Tail(data), monitored, since)

\* GithubRepoMonitor.__init__, lines 88-99: the types the monitor keeps
\* (Null: monitored_events is None)
GithubRepoMonitor(monitored_events) ==
    IF monitored_events = Null THEN MonitorDefaultEvents ELSE monitored_events

\* monitor_github_repo(owner, name, since_time=since): monitored_events is None
monitor_github_repo(resp, since) ==
    IF ~config.GITHUB_TOKEN \/ resp.status # 200 THEN <<>>
    ELSE FilterEvents(resp.data, GithubRepoMonitor(Null), since)

\* GithubRepoMonitorTask.save_events: the document of an event
EventData(w, ev) ==
    [event_id |-> ev.event_id,
     github_repo_scheduler_id |-> worker[w].scheduler_id,
     github_repo_task_id |-> worker[w].task_id]

\* save_events without the look-up of the persisted event: nothing is ever found
ExistingEvent_NeverFound(eid, sid) == FALSE

\* find_one({"event_id": .., "github_repo_scheduler_id": ..}) on github_repo_event
ExistingEvent(eid, sid) ==
    \E e \in events : e.event_id = eid /\ e.github_repo_scheduler_id = sid

Goto(w, pc) == [worker EXCEPT ![w].pc = pc]

TaskFrame == <<now, sched, nextId, nextTask, api, tick, config, stopped, push, report>>

\* TaskStart without the check of the token
TaskStart_NoTokenCheck(w, msg) ==
    /\ worker[w].pc = "idle"
    /\ msg \in queue
    /\ queue' = queue \ {msg}
    /\ worker' = [worker EXCEPT ![w] =
                     [pc |-> "set_start_time",
                      task_id |-> msg.task_id, scheduler_id |-> msg.scheduler_id,
                      events |-> <<>>, i |-> 0, http |-> -1, sent |-> "none"]]
    /\ UNCHANGED <<TaskFrame, tasks, events, notified>>

\* the worker takes a message of the queue; github_repo_monitor_task, line 490
TaskStart(w, msg) ==
    /\ worker[w].pc = "idle"
    /\ msg \in queue
    /\ queue' = queue \ {msg}
    /\ worker' = [worker EXCEPT ![w] =
                     [pc |-> IF config.GITHUB_TOKEN THEN "set_start_time" ELSE "token_error",
                      task_id |-> msg.task_id, scheduler_id |-> msg.scheduler_id,
                      events |-> <<>>, i |-> 0, http |-> -1, sent |-> "none"]]
    /\ UNCHANGED <<TaskFrame, tasks, events, notified>>

\* github_repo_monitor_task, line 492
TaskTokenError(w, ok) ==
    /\ worker[w].pc = "token_error"
    /\ tasks' = IF ok THEN update_status(worker[w].task_id, ERROR) ELSE tasks
    /\ worker' = Goto(w, IF ok THEN "token_end" ELSE "outer_error")
    /\ UNCHANGED <<TaskFrame, events, queue, notified>>

\* github_repo_monitor_task, lines 493-494
TaskTokenEnd(w, ok) ==
    /\ worker[w].pc = "token_end"
    /\ tasks' = IF ok THEN set_end_time(worker[w].task_id) ELSE tasks
    /\ worker' = IF ok THEN [worker EXCEPT ![w] = WorkerIdle] ELSE Goto(w, "outer_error")
    /\ UNCHANGED <<TaskFrame, events, queue, notified>>

\* GithubRepoMonitorTask.run, line 454
TaskSetStartTime(w, ok) ==
    /\ worker[w].pc = "set_start_time"
    /\ tasks' = IF ok THEN set_start_time(worker[w].task_id) ELSE tasks
    /\ worker' = Goto(w, IF ok THEN "fetching" ELSE "outer_error")
    /\ UNCHANGED <<TaskFrame, events, queue, notified>>

\* GithubRepoMonitorTask.fetch_events, line 375
TaskFetching(w, ok) ==
    /\ worker[w].pc = "fetching"
    /\ tasks' = IF ok THEN update_status(worker[w].task_id, "fetching events") ELSE tasks
    /\ worker' = Goto(w, IF ok THEN "fetch" ELSE "run_error")
    /\ UNCHANGED <<TaskFrame, events, queue, notified>>

\* TaskFetch with a fetch that raises when the endpoint does not answer 200
TaskFetch_RaisesOnError(w, ok, resp) ==
    /\ worker[w].pc = "fetch"
    /\ \A i \in 1..Len(resp.data) : resp.data[i].created_at <= now
    /\ worker' = [worker EXCEPT
                     ![w].pc = IF ok /\ config.GITHUB_TOKEN /\ resp.status # 200
                                 THEN "run_error" ELSE "saving",
                     ![w].http = IF ok /\ config.GITHUB_TOKEN THEN resp.status ELSE -1,
                     ![w].events =
                         IF ok THEN monitor_github_repo(
                                        resp, get_last_check_time(worker[w].scheduler_id))
                         ELSE <<>>]
    /\ UNCHANGED <<TaskFrame, tasks, events, queue, notified>>

\* GithubRepoMonitorTask.fetch_events, lines 377-389
TaskFetch(w, ok, resp) ==
    /\ worker[w].pc = "fetch"
    /\ \A i \in 1..Len(resp.data) : resp.data[i].created_at <= now
    /\ worker' = [worker EXCEPT
                     ![w].pc = "saving",
                     ![w].http = IF ok /\ config.GITHUB_TOKEN THEN resp.status ELSE -1,
                     ![w].events =
                         IF ok THEN monitor_github_repo(
                                        resp, get_last_check_time(worker[w].scheduler_id))
                         ELSE <<>>]
    /\ UNCHANGED <<TaskFrame, tasks, events, queue, notified>>

\* the loop of save_events goes on to the next event, or ends
SaveNext(w) ==
    IF worker[w].i < Len(worker[w].events)
        THEN [worker EXCEPT ![w].pc = "save_find", ![w].i = worker[w].i + 1]
        ELSE [worker EXCEPT ![w].pc = "notify", ![w].i = 0]

\* GithubRepoMonitorTask.save_events, line 393
TaskSaving(w, ok) ==
    /\ worker[w].pc = "saving"
    /\ tasks' = IF ok THEN update_status(worker[w].task_id, SavingLabel(Len(worker[w].events)))
                ELSE tasks
    /\ worker' = IF ok THEN SaveNext(w) ELSE Goto(w, "run_error")
    /\ UNCHANGED <<TaskFrame, events, queue, notified>>

\* TaskSaveFind with a look-up by the event id and the task id in place of
\* the schedule id
TaskSaveFind_ByTask(w, ok) ==
    /\ worker[w].pc = "save_find"
    /\ worker' = IF ~ok THEN Goto(w, "run_error")
                 ELSE IF \E e \in events :
                            /\ e.event_id = worker[w].events[worker[w].i].event_id
                            /\ e.github_repo_task_id = worker[w].task_id
                   THEN SaveNext(w)
                   ELSE Goto(w, "save_insert")
    /\ UNCHANGED <<TaskFrame, tasks, events, queue, notified>>

\* GithubRepoMonitorTask.save_events, lines 402-407
TaskSaveFind(w, ok) ==
    /\ worker[w].pc = "save_find"
    /\ worker' = IF ~ok THEN Goto(w, "run_error")
                 ELSE IF ExistingEvent(worker[w].events[worker[w].i].event_id,
                                       worker[w].scheduler_id)
                   THEN SaveNext(w)
                   ELSE Goto(w, "save_insert")
    /\ UNCHANGED <<TaskFrame, tasks, events, queue, notified>>

\* TaskSaveInsert as an insert under a unique index on the event id and the
\* schedule id: nothing is written when a record is there by now
TaskSaveInsert_Unique(w, ok) ==
    /\ worker[w].pc = "save_insert"
    /\ events' = IF ok /\ ~ExistingEvent(worker[w].events[worker[w].i].event_id,
                                         worker[w].scheduler_id)
                   THEN events \cup {EventData(w, worker[w].events[worker[w].i])}
                   ELSE events
    /\ worker' = IF ok THEN SaveNext(w) ELSE Goto(w, "run_error")
    /\ UNCHANGED <<TaskFrame, tasks, queue, notified>>

\* TaskSaveInsert with an insert that is put off: the loop goes on, nothing
\* is written
TaskSaveInsert_NoWrite(w, ok) ==
    /\ worker[w].pc = "save_insert"
    /\ events' = events
    /\ worker' = IF ok THEN SaveNext(w) ELSE Goto(w, "run_error")
    /\ UNCHANGED <<TaskFrame, tasks, queue, notified>>

\* GithubRepoMonitorTask.save_events, line 408
TaskSaveInsert(w, ok) ==
    /\ worker[w].pc = "save_insert"
    /\ events' = IF ok THEN events \cup {EventData(w, worker[w].events[worker[w].i])}
                 ELSE events
    /\ worker' = IF ok THEN SaveNext(w) ELSE Goto(w, "run_error")
    /\ UNCHANGED <<TaskFrame, tasks, queue, notified>>

\* TaskNotify with a send_notification that lets the exception of the
\* webhook call through
TaskNotify_RaiseFails(w, res) ==
    /\ worker[w].pc = "notify"
    /\ notified' = IF worker[w].events # <<>> /\ config.DINGTALK_WEBHOOK_URL
                     THEN notified \cup {[task_id |-> worker[w].task_id,
                                          scheduler_id |-> worker[w].scheduler_id,
                                          events |-> worker[w].events]}
                     ELSE notified
    /\ worker' = [worker EXCEPT
                     ![w].pc = IF worker[w].events # <<>> /\ config.DINGTALK_WEBHOOK_URL
                                  /\ res = "raise"
                                 THEN "run_error" ELSE "statistic",
                     ![w].sent = IF worker[w].events = <<>> THEN "empty"
                                 ELSE IF ~config.DINGTALK_WEBHOOK_URL THEN "unconfigured"
                                 ELSE res]
    /\ UNCHANGED <<TaskFrame, tasks, events, queue>>

\* GithubRepoMonitorTask.send_notification: res is how the webhook call ends
\* ("ok", "errcode" or "raise")
TaskNotify(w, res) ==
    /\ worker[w].pc = "notify"
    /\ notified' = IF worker[w].events # <<>> /\ config.DINGTALK_WEBHOOK_URL
                     THEN notified \cup {[task_id |-> worker[w].task_id,
                                          scheduler_id |-> worker[w].scheduler_id,
                                          events |-> worker[w].events]}
                     ELSE notified
    /\ worker' = [worker EXCEPT
                     ![w].pc = "statistic",
                     ![w].sent = IF worker[w].events = <<>> THEN "empty"
                                 ELSE IF ~config.DINGTALK_WEBHOOK_URL THEN "unconfigured"
                                 ELSE res]
    /\ UNCHANGED <<TaskFrame, tasks, events, queue>>

\* GithubRepoMonitorTask.statistic
TaskStatistic(w, ok) ==
    /\ worker[w].pc = "statistic"
    /\ tasks' = IF ok THEN statistic(worker[w].task_id, worker[w].events) ELSE tasks
    /\ worker' = Goto(w, IF ok THEN "done" ELSE "run_error")
    /\ UNCHANGED <<TaskFrame, events, queue, notified>>

\* GithubRepoMonitorTask.run, line 469
TaskDone(w, ok) ==
    /\ worker[w].pc = "done"
    /\ tasks' = IF ok THEN update_status(worker[w].task_id, DONE) ELSE tasks
    /\ worker' = Goto(w, IF ok THEN "finally" ELSE "run_error")
    /\ UNCHANGED <<TaskFrame, events, queue, notified>>

\* GithubRepoMonitorTask.run, lines 471-473: the except clause
TaskRunError(w, ok) ==
    /\ worker[w].pc = "run_error"
    /\ tasks' = IF ok THEN update_status(worker[w].task_id, ERROR) ELSE tasks
    /\ worker' = Goto(w, IF ok THEN "finally" ELSE "finally_raise")
    /\ UNCHANGED <<TaskFrame, events, queue, notified>>

\* TaskFinally without the write of the end time
TaskFinally_NoEndTime(w, ok) ==
    /\ worker[w].pc = "finally"
    /\ tasks' = tasks
    /\ worker' = IF ok THEN [worker EXCEPT ![w] = WorkerIdle] ELSE Goto(w, "outer_error")
    /\ UNCHANGED <<TaskFrame, events, queue, notified>>

\* GithubRepoMonitorTask.run, lines 475-476: the finally clause
TaskFinally(w, ok) ==
    /\ worker[w].pc = "finally"
    /\ tasks' = IF ok THEN set_end_time(worker[w].task_id) ELSE tasks
    /\ worker' = IF ok THEN [worker EXCEPT ![w] = WorkerIdle] ELSE Goto(w, "outer_error")
    /\ UNCHANGED <<TaskFrame, events, queue, notified>>

\* the finally clause while the exception of the except clause propagates
TaskFinallyRaise(w, ok) ==
    /\ worker[w].pc = "finally_raise"
    /\ tasks' = IF ok THEN set_end_time(worker[w].task_id) ELSE tasks
    /\ worker' = Goto(w, "outer_error")
    /\ UNCHANGED <<TaskFrame, events, queue, notified>>

\* github_repo_monitor_task, lines 498-500: the except clause
TaskOuterError(w, ok) ==
    /\ worker[w].pc = "outer_error"
    /\ tasks' = IF ok THEN update_status(worker[w].task_id, ERROR) ELSE tasks
    /\ worker' = IF ok THEN Goto(w, "outer_end") ELSE [worker EXCEPT ![w] = WorkerIdle]
    /\ UNCHANGED <<TaskFrame, events, queue, notified>>

\* github_repo_monitor_task, line 501
TaskOuterEnd(w, ok) ==
    /\ worker[w].pc = "outer_end"
    /\ tasks' = IF ok THEN set_end_time(worker[w].task_id) ELSE tasks
    /\ worker' = [worker EXCEPT ![w] = WorkerIdle]
    /\ UNCHANGED <<TaskFrame, events, queue, notified>>

----------------------------------------------------------------------------
(* tasks/github.py: GithubTaskMonitor.push_msg and its two channels *)

PushFrame == <<now, sched, nextId, tasks, nextTask, events, queue, api, tick,
               config, worker, notified, stopped, report>>

\* how a channel that is called can end
ChannelResults == {"ok", "errcode", "raise"}

\* push_msg without the return on an empty list of results
PushMsg_NoEmptyCheck(new_results, dingding, email) ==
    /\ push.pc = "idle"
    /\ push' = [PushIdle EXCEPT !.pc = "dingding",
                                !.new_results = new_results,
                                !.dingding = dingding,
                                !.email = email]
    /\ UNCHANGED PushFrame

\* GithubTaskMonitor.push_msg, lines 237-241
PushMsg(new_results, dingding, email) ==
    /\ push.pc = "idle"
    /\ push' = [PushIdle EXCEPT !.pc = IF new_results = <<>> THEN "return" ELSE "dingding",
                                !.new_results = new_results,
                                !.dingding = dingding,
                                !.email = email]
    /\ UNCHANGED PushFrame

\* push_dingding without the except clause: the exception leaves push_msg
PushDingding_StopsOnRaise(res) ==
    /\ push.pc = "dingding"
    /\ push' = [push EXCEPT
                   !.pc = IF push.dingding /\ res = "raise" THEN "return" ELSE "email",
                   !.results = Append(@, IF push.dingding THEN res ELSE "unconfigured"),
                   !.calls = IF push.dingding THEN Append(@, "dingding") ELSE @]
    /\ UNCHANGED PushFrame

\* GithubTaskMonitor.push_dingding: res is how push.dingding_send ends
PushDingding(res) ==
    /\ push.pc = "dingding"
    /\ push' = [push EXCEPT
                   !.pc = "email",
                   !.results = Append(@, IF push.dingding THEN res ELSE "unconfigured"),
                   !.calls = IF push.dingding THEN Append(@, "dingding") ELSE @]
    /\ UNCHANGED PushFrame

\* GithubTaskMonitor.push_email: res is how push.send_email ends
PushEmail(res) ==
    /\ push.pc = "email"
    /\ push' = [push EXCEPT
                   !.pc = "return",
                   !.results = Append(@, IF push.email THEN res ELSE "unconfigured"),
                   !.calls = IF push.email THEN Append(@, "email") ELSE @]
    /\ UNCHANGED PushFrame

\* push_msg has returned
PushDone ==
    /\ push.pc = "return"
    /\ push' = PushIdle
    /\ UNCHANGED PushFrame

----------------------------------------------------------------------------
(* services/github_repo_monitor.py: format_events_for_dingtalk.  The       *)
(* markdown is kept as the sequence of its parts.                          *)

ReportFrame == <<now, sched, nextId, tasks, nextTask, events, queue, api, tick,
                 config, worker, notified, stopped, push>>

\* the longest batch handed to format_events_for_dingtalk
MaxEvents == 12

\* format_events_for_dingtalk, line 209: events[:10]
ShownEvents == 10

\* the events of a batch to format
FormatEvents == {e \in RawEvents : e.type \in {"PushEvent", "ReleaseEvent"}}

NoEvent == [event_id |-> "", type |-> "", created_at |-> 0]

\* one part of the markdown: the 'no new events' text ("empty"), the heading
\* with the repository and the number of events ("header"), the block of the
\* idx-th event ("event"), or the note on the n events not shown ("more")
MdPart(part, repo, idx, event, n) ==
    [part |-> part, repo |-> repo, idx |-> idx, event |-> event, n |-> n]

Min(a, b) == IF a < b THEN a ELSE b

\* format_events_for_dingtalk that counts the events not shown from the
\* eleventh on but lists every event
format_events_for_dingtalk_NoLimit(repo_owner, repo_name, evs) ==
    IF evs = <<>>
      THEN <<MdPart("empty", <<repo_owner, repo_name>>, 0, NoEvent, 0)>>
      ELSE <<MdPart("header", <<repo_owner, repo_name>>, 0, NoEvent, Len(evs))>>
           \o [idx \in 1..Len(evs) |-> MdPart("event", <<>>, idx, evs[idx], 0)]
           \o (IF Len(evs) > ShownEvents
                 THEN <<MdPart("more", <<>>, 0, NoEvent, Len(evs) - ShownEvents)>>
                 ELSE <<>>)

\* format_events_for_dingtalk(repo_owner, repo_name, events)
format_events_for_dingtalk(repo_owner, repo_name, evs) ==
    IF evs = <<>>
      THEN <<MdPart("empty", <<repo_owner, repo_name>>, 0, NoEvent, 0)>>
      ELSE <<MdPart("header", <<repo_owner, repo_name>>, 0, NoEvent, Len(evs))>>
           \o [idx \in 1..Min(ShownEvents, Len(evs)) |->
                  MdPart("event", <<>>, idx, evs[idx], 0)]
           \o (IF Len(evs) > ShownEvents
                 THEN <<MdPart("more", <<>>, 0, NoEvent, Len(evs) - ShownEvents)>>
                 ELSE <<>>)

\* one more event in the batch to format
ReportAddEvent(e) ==
    /\ report.markdown = <<>>
    /\ Len(report.events) < MaxEvents
    /\ report' = [report EXCEPT !.events = Append(@, e)]
    /\ UNCHANGED ReportFrame

\* send_github_event_notification, line 214: the markdown of the batch
ReportFormat ==
    /\ report.markdown = <<>>
    /\ report' = [report EXCEPT !.markdown = format_events_for_dingtalk("o1", "r1", report.events)]
    /\ UNCHANGED ReportFrame

----------------------------------------------------------------------------
(* tasks/github.py: GithubTaskMonitor.build_repo_map and build_html_report. *)
(* The html is kept as its tables, each with its rows.                      *)

\* the longest list of new results, and the repositories they come from
MaxResults == 12
RepoNames == <<"o/r1", "o/r2", "o/r3", "o/r4", "o/r5", "o/r6">>

\* the loop body of build_repo_map: the result goes to the list of its
\* repository, a repository seen for the first time goes last
RepoMapAdd(repo_map, result) ==
    IF \E i \in 1..Len(repo_map) : repo_map[i].repo_name = result.repo_full_name
      THEN [i \in 1..Len(repo_map) |->
               IF repo_map[i].repo_name = result.repo_full_name
                 THEN [repo_map[i] EXCEPT !.items = Append(@, result)]
                 ELSE repo_map[i]]
      ELSE Append(repo_map, [repo_name |-> result.repo_full_name, items |-> <<result>>])

\* GithubTaskMonitor.build_repo_map
RECURSIVE RepoMapFrom(_, _)
RepoMapFrom(repo_map, results) ==
    IF results = <<>> THEN repo_map
    ELSE RepoMapFrom(RepoMapAdd(repo_map, Head(results)), Tail(results))

build_repo_map(new_results) == RepoMapFrom(<<>>, new_results)

\* build_html_report, lines 186-202: the rows of one table; the loop adds
\* the row and then leaves when tr_cnt > 10
RECURSIVE HtmlRows(_, _)
HtmlRows(items, tr_cnt) ==
    IF items = <<>> THEN <<>>
    ELSE LET cnt == tr_cnt + 1
         IN  <<[tr_cnt |-> cnt, item |-> Head(items)]>>
                 \o (IF cnt > 10 THEN <<>> ELSE HtmlRows(Tail(items), cnt))

\* build_html_report, lines 162-207: the tables; the loop leaves when
\* repo_cnt > 5, before the table of that repository
RECURSIVE HtmlTables(_, _)
HtmlTables(repo_map, repo_cnt) ==
    IF repo_map = <<>> THEN <<>>
    ELSE LET cnt == repo_cnt + 1
         IN  IF cnt > 5 THEN <<>>
             ELSE <<[repo_cnt |-> cnt,
                     repo_name |-> Head(repo_map).repo_name,
                     total |-> Len(Head(repo_map).items),
                     rows |-> HtmlRows(Head(repo_map).items, 0)]>>
                      \o HtmlTables(Tail(repo_map), cnt)

\* GithubTaskMonitor.build_html_report
build_html_report(new_results) ==
    [repos |-> Len(build_repo_map(new_results)),
     results |-> Len(new_results),
     tables |-> HtmlTables(build_repo_map(new_results), 0)]

\* one more new result, of repository RepoNames[r]; the results of a
\* repository come in a row
ReportAddResult(r) ==
    /\ report.html = <<>>
    /\ Len(report.new_results) < MaxResults
    /\ \A i \in 1..Len(report.new_results) :
          \E q \in 1..r : RepoNames[q] = report.new_results[i].repo_full_name
    /\ report' = [report EXCEPT !.new_results =
                     Append(@, [repo_full_name |-> RepoNames[r],
                                no |-> Len(report.new_results) + 1])]
    /\ UNCHANGED ReportFrame

\* push_email, line 262: the html report of the new results
ReportBuildHtml ==
    /\ report.html = <<>>
    /\ report' = [report EXCEPT !.html = <<build_html_report(report.new_results)>>]
    /\ UNCHANGED ReportFrame

----------------------------------------------------------------------------
(* The next-state relations.  A handler's first step starts it; the steps  *)
(* after the first continue a handler that has started.                    *)

ApiBusy == api.pc # "idle"
TickBusy == \E t \in Ticks : tick[t].pc # "idle"
WorkerBusy == \E w \in Workers : worker[w].pc # "idle"

\* the later steps of the request in progress
StopSteps ==
    \/ StopCheck
    \/ StopFind
    \/ StopReplace

RecoverSteps ==
    \/ RecoverCheck
    \/ RecoverFind
    \/ RecoverReplace

DeleteSteps ==
    \/ DeleteCheck
    \/ DeleteScheduler
    \/ DeleteEvents
    \/ DeleteTasks

\* the later steps of the ticks in progress
TickSteps ==
    \/ \E t \in Ticks : TickEval(t)
    \/ \E t \in Ticks, f \in SubmitFaults : TickSubmit(t, f)
    \/ \E t \in Ticks, ok \in BOOLEAN : TickReplace(t, ok)

\* the later steps of the task executions in progress; the store may raise
TaskSteps ==
    \/ \E w \in Workers, ok \in BOOLEAN : TaskTokenError(w, ok)
    \/ \E w \in Workers, ok \in BOOLEAN : TaskTokenEnd(w, ok)
    \/ \E w \in Workers, ok \in BOOLEAN : TaskSetStartTime(w, ok)
    \/ \E w \in Workers, ok \in BOOLEAN : TaskFetching(w, ok)
    \/ \E w \in Workers, ok \in BOOLEAN, resp \in HttpResponses : TaskFetch(w, ok, resp)
    \/ \E w \in Workers, ok \in BOOLEAN : TaskSaving(w, ok)
    \/ \E w \in Workers, ok \in BOOLEAN : TaskSaveFind(w, ok)
    \/ \E w \in Workers, ok \in BOOLEAN : TaskSaveInsert(w, ok)
    \/ \E w \in Workers, res \in ChannelResults : TaskNotify(w, res)
    \/ \E w \in Workers, ok \in BOOLEAN : TaskStatistic(w, ok)
    \/ \E w \in Workers, ok \in BOOLEAN : TaskDone(w, ok)
    \/ \E w \in Workers, ok \in BOOLEAN : TaskRunError(w, ok)
    \/ \E w \in Workers, ok \in BOOLEAN : TaskFinally(w, ok)
    \/ \E w \in Workers, ok \in BOOLEAN : TaskFinallyRaise(w, ok)
    \/ \E w \in Workers, ok \in BOOLEAN : TaskOuterError(w, ok)
    \/ \E w \in Workers, ok \in BOOLEAN : TaskOuterEnd(w, ok)

\* every interleaving of the requests, the ticks and the workers
Next ==
    \/ AdvanceTime
    \/ \E name \in NameInputs, owner \in OwnerInputs, repo \in RepoInputs,
          cron \in CronInputs, mev \in EventInputs : Create(name, owner, repo, cron, mev)
    \/ \E ids \in IdLists : StopPost(ids)
    \/ \E ids \in IdLists : RecoverPost(ids)
    \/ \E ids \in IdLists : DeletePost(ids)
    \/ \E id \in Ids, args \in UpdateArgs : UpdateFind(id, args)
    \/ StopSteps
    \/ RecoverSteps
    \/ DeleteSteps
    \/ UpdateReplace
    \/ ApiDone
    \/ \E t \in Ticks : TickFind(t)
    \/ TickSteps
    \/ \E w \in Workers, msg \in queue : TaskStart(w, msg)
    \/ TaskSteps

Spec == Init /\ [][Next]_vars

----------------------------------------------------------------------------
(* The registry and the tick, run one after another: a request or a tick   *)
(* that has started ends before anything else starts, and takes no time.   *)
(* Submitted tasks stay in the queue.                                      *)

SingleLists == {<<a>> : a \in Ids}

InitSched == Init /\ config.GITHUB_TOKEN /\ config.DINGTALK_WEBHOOK_URL

SchedNext ==
    \/ ~ApiBusy /\ ~TickBusy /\ AdvanceTime
    \/ ~TickBusy /\ \E name \in NameInputs, owner \in OwnerInputs, repo \in RepoInputs,
                       cron \in CronInputs : Create(name, owner, repo, cron, <<>>)
    \/ ~TickBusy /\ \E ids \in SingleLists : StopPost(ids)
    \/ ~TickBusy /\ \E ids \in SingleLists : RecoverPost(ids)
    \/ ~TickBusy /\ \E ids \in SingleLists : DeletePost(ids)
    \/ StopSteps
    \/ RecoverSteps
    \/ DeleteSteps
    \/ ApiDone
    \/ ~ApiBusy /\ TickFind(1)
    \/ TickSteps

SpecSched == InitSched /\ [][SchedNext]_vars

\* One entry; requests and one tick at a time, their steps interleaved in
\* every order (the web workers and the beat worker are separate processes).
ConcNext ==
    \/ AdvanceTime
    \/ nextId = 1 /\ \E cron \in ValidCrons : Create("n1", "o1", "r1", cron, <<>>)
    \/ StopPost(<<1>>)
    \/ RecoverPost(<<1>>)
    \/ \E args \in UpdateArgs : UpdateFind(1, args)
    \/ StopSteps
    \/ RecoverSteps
    \/ UpdateReplace
    \/ ApiDone
    \/ TickFind(1)
    \/ TickSteps

SpecConc == InitSched /\ [][ConcNext]_vars

\* the steps of a tick on which nothing raises
NoFault == [insert |-> TRUE, enqueue |-> TRUE, update |-> TRUE, delete |-> TRUE]

TickStepsOk ==
    \/ TickEval(1)
    \/ TickSubmit(1, NoFault)
    \/ TickReplace(1, TRUE)

\* One entry, one tick and one worker, run one after another; the store may
\* raise on every operation of the task body.
TaskNext ==
    \/ ~ApiBusy /\ ~TickBusy /\ ~WorkerBusy /\ AdvanceTime
    \/ nextId = 1 /\ \E cron \in ValidCrons : Create("n1", "o1", "r1", cron, <<>>)
    \/ ApiDone
    \/ ~ApiBusy /\ ~WorkerBusy /\ TickFind(1)
    \/ TickStepsOk
    \/ ~ApiBusy /\ ~TickBusy /\ \E msg \in queue : TaskStart(1, msg)
    \/ TaskSteps

SpecTask == Init /\ [][TaskNext]_vars

\* the steps of a task execution on which nothing raises
TaskStepsOk ==
    \/ TaskSetStartTime(1, TRUE)
    \/ TaskFetching(1, TRUE)
    \/ \E resp \in HttpResponses : TaskFetch(1, TRUE, resp)
    \/ TaskSaving(1, TRUE)
    \/ TaskSaveFind(1, TRUE)
    \/ TaskSaveInsert(1, TRUE)
    \/ \E res \in ChannelResults : TaskNotify(1, res)
    \/ TaskStatistic(1, TRUE)
    \/ TaskDone(1, TRUE)
    \/ TaskFinally(1, TRUE)

\* Requests, one tick and one worker, run one after another, at one instant:
\* entries are created, run once and deleted.
DeleteNext ==
    \/ ~TickBusy /\ ~WorkerBusy
          /\ \E cron \in ValidCrons : Create("n1", "o1", "r1", cron, <<>>)
    \/ ~TickBusy /\ ~WorkerBusy /\ \E ids \in IdLists : DeletePost(ids)
    \/ DeleteSteps
    \/ ApiDone
    \/ ~ApiBusy /\ ~WorkerBusy /\ TickFind(1)
    \/ TickSteps
    \/ ~ApiBusy /\ ~TickBusy /\ \E msg \in queue : TaskStart(1, msg)
    \/ TaskStepsOk

SpecDelete == InitSched /\ [][DeleteNext]_vars

PushBusy == push.pc # "idle"

\* the steps of the task body when the token is unset and nothing raises
TaskTokenStepsOk ==
    \/ TaskTokenError(1, TRUE)
    \/ TaskTokenEnd(1, TRUE)

\* the steps of a call of push_msg
PushSteps ==
    \/ \E res \in ChannelResults : PushDingding(res)
    \/ \E res \in {"ok", "raise"} : PushEmail(res)
    \/ PushDone

\* One entry, one tick, one worker and the calls of push_msg, run one after
\* another; the store never raises, the endpoint and the channels may fail.
RunNext ==
    \/ ~ApiBusy /\ ~TickBusy /\ ~WorkerBusy /\ ~PushBusy /\ AdvanceTime
    \/ nextId = 1 /\ \E cron \in ValidCrons : Create("n1", "o1", "r1", cron, <<>>)
    \/ ApiDone
    \/ ~ApiBusy /\ ~WorkerBusy /\ ~PushBusy /\ TickFind(1)
    \/ TickStepsOk
    \/ ~ApiBusy /\ ~TickBusy /\ ~PushBusy /\ \E msg \in queue : TaskStart(1, msg)
    \/ TaskTokenStepsOk
    \/ TaskStepsOk
    \/ ~ApiBusy /\ ~TickBusy /\ ~WorkerBusy
          /\ \E nr \in {<<>>, <<"r1">>}, d \in BOOLEAN, e \in BOOLEAN : PushMsg(nr, d, e)
    \/ PushSteps

SpecRun == Init /\ [][RunNext]_vars

\* the steps of a task execution; the store may raise on the operations of
\* fetch_events, save_events and statistic, and on no other
BodySteps ==
    \/ TaskTokenError(1, TRUE)
    \/ TaskTokenEnd(1, TRUE)
    \/ TaskSetStartTime(1, TRUE)
    \/ \E ok \in BOOLEAN : TaskFetching(1, ok)
    \/ \E ok \in BOOLEAN, resp \in HttpResponses : TaskFetch(1, ok, resp)
    \/ \E ok \in BOOLEAN : TaskSaving(1, ok)
    \/ \E ok \in BOOLEAN : TaskSaveFind(1, ok)
    \/ \E ok \in BOOLEAN : TaskSaveInsert(1, ok)
    \/ \E res \in ChannelResults : TaskNotify(1, res)
    \/ \E ok \in BOOLEAN : TaskStatistic(1, ok)
    \/ TaskDone(1, TRUE)
    \/ TaskRunError(1, TRUE)
    \/ TaskFinally(1, TRUE)

\* One entry, one tick and one worker, run one after another.  A worker that
\* has started a task goes on until the task function returns.
BodyNext ==
    \/ ~ApiBusy /\ ~TickBusy /\ ~WorkerBusy /\ AdvanceTime
    \/ nextId = 1 /\ \E cron \in ValidCrons : Create("n1", "o1", "r1", cron, <<>>)
    \/ ApiDone
    \/ ~ApiBusy /\ ~WorkerBusy /\ TickFind(1)
    \/ TickStepsOk
    \/ ~ApiBusy /\ ~TickBusy /\ \E msg \in queue : TaskStart(1, msg)
    \/ BodySteps

SpecBody == Init /\ [][BodyNext]_vars /\ WF_vars(BodySteps)

\* Two entries; create, update, stop and one tick, run one after another:
\* an update reads and writes back with nothing in between.
UpdateNext ==
    \/ ~ApiBusy /\ ~TickBusy /\ AdvanceTime
    \/ ~TickBusy /\ \E cron \in ValidCrons : Create("n1", "o1", "r1", cron, <<>>)
    \/ ~TickBusy /\ \E id \in Ids, args \in UpdateArgs : UpdateFind(id, args)
    \/ UpdateReplace
    \/ ~TickBusy /\ \E ids \in SingleLists : StopPost(ids)
    \/ StopSteps
    \/ ApiDone
    \/ ~ApiBusy /\ TickFind(1)
    \/ TickStepsOk

SpecUpdate == InitSched /\ [][UpdateNext]_vars

\* A batch of events is put together and formatted.
FormatNext ==
    \/ \E e \in FormatEvents : ReportAddEvent(e)
    \/ ReportFormat

SpecFormat == InitSched /\ [][FormatNext]_vars

\* A list of new results is put together and its html report is built.
HtmlNext ==
    \/ \E r \in 1..Len(RepoNames) : ReportAddResult(r)
    \/ ReportBuildHtml

SpecHtml == InitSched /\ [][HtmlNext]_vars

\* One entry and two ticks whose steps interleave in every order (the tick
\* that a restarted driver starts while the previous one is still running);
\* the clock stands still while a tick runs.
OverlapNext ==
    \/ ~ApiBusy /\ ~TickBusy /\ AdvanceTime
    \/ nextId = 1 /\ \E cron \in ValidCrons : Create("n1", "o1", "r1", cron, <<>>)
    \/ ApiDone
    \/ ~ApiBusy /\ \E t \in Ticks : TickFind(t)
    \/ TickSteps

SpecOverlap == InitSched /\ [][OverlapNext]_vars

\* the steps of the task body on either worker when nothing raises
TaskStepsBoth ==
    \/ \E w \in Workers : TaskSetStartTime(w, TRUE)
    \/ \E w \in Workers : TaskFetching(w, TRUE)
    \/ \E w \in Workers, resp \in HttpResponses : TaskFetch(w, TRUE, resp)
    \/ \E w \in Workers : TaskSaving(w, TRUE)
    \/ \E w \in Workers : TaskSaveFind(w, TRUE)
    \/ \E w \in Workers : TaskSaveInsert(w, TRUE)
    \/ \E w \in Workers : TaskNotify(w, "ok")
    \/ \E w \in Workers : TaskStatistic(w, TRUE)
    \/ \E w \in Workers : TaskDone(w, TRUE)
    \/ \E w \in Workers : TaskFinally(w, TRUE)

\* One entry whose tasks wait in the queue and are then run by two workers,
\* the steps of the two runs interleaved in every order; ticks run one at a
\* time while no worker runs, and nothing raises.
DedupNext ==
    \/ ~ApiBusy /\ ~TickBusy /\ ~WorkerBusy /\ AdvanceTime
    \/ nextId = 1 /\ Create("n1", "o1", "r1", Cron3, <<>>)
    \/ ApiDone
    \/ ~ApiBusy /\ ~WorkerBusy /\ TickFind(1)
    \/ TickStepsOk
    \/ ~ApiBusy /\ ~TickBusy /\ \E w \in Workers, msg \in queue : TaskStart(w, msg)
    \/ TaskStepsBoth

SpecDedup == InitSched /\ [][DedupNext]_vars

\* the gaps between two invocations of the periodic driver, under a minute
BeatGaps == {30, 50}
BeatEnd == Instants[Len(Instants)] + 200

\* the periodic driver: gap seconds after the last invocation, the next one
\* starts (github_repo_scheduler, line 91)
BeatTick(gap) ==
    /\ tick[1].pc = "idle"
    /\ now + gap <= BeatEnd
    /\ now' = now + gap
    /\ tick' = [tick EXCEPT ![1] =
                   IF FindAll = <<>> THEN TickIdle
                   ELSE [pc |-> "eval", items |-> FindAll, i |-> 1, item |-> NoItem,
                         after |-> stopped]]
    /\ UNCHANGED <<sched, nextId, tasks, nextTask, events, queue, api, TaskVars, stopped>>

\* One entry of the 5-minute expression, created between two invocations of
\* the driver; the invocations follow each other less than a minute apart,
\* never overlap, and nothing raises.
BeatNext ==
    \/ ~ApiBusy /\ \E gap \in BeatGaps : BeatTick(gap)
    \/ ~TickBusy /\ nextId = 1 /\ Create("n1", "o1", "r1", Cron5, <<>>)
    \/ ApiDone
    \/ TickStepsOk

SpecBeat == InitSched /\ [][BeatNext]_vars

\* Two entries; stop and recover are called on lists of one or two ids,
\* requests one after another, no tick.
ListNext ==
    \/ ~ApiBusy /\ AdvanceTime
    \/ \E cron \in ValidCrons : Create("n1", "o1", "r1", cron, <<>>)
    \/ \E ids \in IdLists : StopPost(ids)
    \/ \E ids \in IdLists : RecoverPost(ids)
    \/ StopSteps
    \/ RecoverSteps
    \/ ApiDone

SpecList == InitSched /\ [][ListNext]_vars

----------------------------------------------------------------------------
(* Properties of the periodic tick, checked under SpecSched *)

\* the entry the loop of tick t is at
TickItem(t) == tick[t].items[tick[t].i]

\* tick t takes its decision on the current entry in this step
TickDecides(t) == tick[t].pc = "eval" /\ tick'[t] # tick[t]

\* C1: a tick reads every persisted entry, and it submits a task for an entry
\* if and only if the entry is RUNNING, its next cron fire time is less than
\* 60 s away and more than 180 s separate now from its last_run_time.
C1_TickSubmitsIffDue ==
    /\ [](\A t \in Ticks : tick[t].pc # "idle" =>
            {tick[t].items[j].id : j \in 1..Len(tick[t].items)}
                = {k \in Ids : sched[k] # Null})
    /\ [][\A t \in Ticks : TickDecides(t) =>
            LET e == sched[TickItem(t).id] IN
              /\ e # Null
              /\ (tick'[t].pc = "submit") <=>
                   /\ e.status = RUNNING
                   /\ CronNext(e.cron, now) < 60
                   /\ Abs(now - e.last_run_time) > 180]_vars

\* a tick is about to submit a task for its second entry, after it left the
\* first, stopped one alone
C1_Witness ==
    /\ tick[1].pc = "submit"
    /\ tick[1].i = 2
    /\ sched[1] # Null /\ sched[1].status = STOP

\* C2: a tick fires a RUNNING entry inside the lookahead window whose
\* last_run_time is 200 s back; a fire that is written back sets last_run_time to
\* the time of the fire; and no tick fires an entry whose last_run_time is at
\* most 180 s back, so a tick up to 60 s after the fire does not fire it again.
C2_CooldownBlocksRefire ==
    [][\A t \in Ticks :
          /\ TickDecides(t) =>
               LET e == sched[TickItem(t).id] IN
                 /\ (e.status = RUNNING /\ CronNext(e.cron, now) < 60
                        /\ now - e.last_run_time = 200) => tick'[t].pc = "submit"
                 /\ (e.run_number > 0 /\ now - e.last_run_time <= 180)
                        => tick'[t].pc # "submit"
          /\ (tick[t].pc = "replace" /\ sched' # sched) =>
               /\ sched'[tick[t].item.id].last_run_time = now
               /\ sched'[tick[t].item.id].last_run_date = time2date(now)
      ]_vars

\* 20 s after the first fire of an entry a tick, having left the entry alone,
\* ends its pass: the fire has not been repeated
C2_Witness ==
    /\ now = 880
    /\ sched[1] # Null /\ sched[1].run_number = 1 /\ sched[1].last_run_time = 860
    /\ tick[1].pc = "eval" /\ tick[1].i = 2
    /\ nextTask = 2

\* C4: stop on an entry that is not RUNNING returns SchedulerStatusNotRunning,
\* recover on an entry that is not STOPPED returns SchedulerStatusNotStop, and
\* neither changes the registry.
C4_InvalidTransitionRefused ==
    [][(api.pc = "check" /\ api' # api /\ api.op \in {"stop", "recover"}) =>
          LET e == sched[api.ids[api.i]] IN
            /\ (api.op = "stop" /\ e # Null /\ e.status # RUNNING) =>
                 /\ api'.pc = "return" /\ api'.ret = "SchedulerStatusNotRunning"
                 /\ sched' = sched
            /\ (api.op = "recover" /\ e # Null /\ e.status # STOP) =>
                 /\ api'.pc = "return" /\ api'.ret = "SchedulerStatusNotStop"
                 /\ sched' = sched
      ]_vars

\* a stop of a stopped entry has been refused
C4_Witness ==
    /\ api.pc = "return" /\ api.op = "stop"
    /\ api.ret = "SchedulerStatusNotRunning"
    /\ sched[api.ids[1]] # Null /\ sched[api.ids[1]].status = STOP

\* C5: the write of stop changes, of the entry, only status (to STOPPED) and
\* next_run_date (to "-"), and the write of recover changes only status (to
\* RUNNING) and next_run_date (to a time not before the recover call); so stop
\* followed by recover leaves name, repository, cron, monitored events, run
\* counter and last-run fields as they were before the stop.
C5_StopRecoverRoundTrip ==
    [][(api.pc = "replace" /\ sched' # sched /\ api.op \in {"stop", "recover"}) =>
          LET k == api.item.id IN
            /\ \A j \in Ids \ {k} : sched'[j] = sched[j]
            /\ api.op = "stop" =>
                 sched'[k] = [sched[k] EXCEPT !.status = STOP, !.next_run_date = Dash]
            /\ api.op = "recover" =>
                 /\ sched[k].status = STOP /\ sched[k].next_run_date = Dash
                 /\ sched'[k] = [sched[k] EXCEPT !.status = RUNNING,
                                     !.next_run_date = sched'[k].next_run_date]
                 /\ Len(sched'[k].next_run_date) = 1
                 /\ sched'[k].next_run_date[1] >= now
      ]_vars

\* an entry that has run once has been stopped and recovered
C5_Witness ==
    /\ api.pc = "return" /\ api.op = "recover" /\ api.ret = "Success"
    /\ sched[api.ids[1]] # Null
    /\ sched[api.ids[1]].status = RUNNING
    /\ sched[api.ids[1]].run_number = 1

\* C8: when submit returns, either the task record is persisted at WAITING
\* with the handle of the queue recorded and its work enqueued, or there is no
\* record of the task (the enqueue or the recording of the handle failed and
\* the record was deleted); a record whose work was not enqueued never remains.
C8_SubmitLeavesNoOrphan ==
    [][\A t \in Ticks : (tick[t].pc = "submit" /\ tick'[t].pc = "replace") =>
          LET k == nextTask
              msg == [task_id |-> k, scheduler_id |-> tick[t].item.id]
          IN  /\ nextTask' = k + 1
              /\ \A j \in TaskIds \ {k} : tasks'[j] = tasks[j]
              /\ \/ /\ tasks'[k] # Null
                    /\ tasks'[k].status = WAITING
                    /\ tasks'[k].celery_id # ""
                    /\ tasks'[k].github_repo_scheduler_id = tick[t].item.id
                    /\ msg \in queue'
                 \/ tasks'[k] = Null
              /\ msg \notin queue' => tasks'[k] = Null
      ]_vars

\* submit has returned after a failed enqueue: no record, nothing enqueued
C8_Witness ==
    /\ tick[1].pc = "replace"
    /\ nextTask = 2
    /\ tasks[1] = Null
    /\ queue = {}

\* C9: a tick changes the run counter and the last-run fields of an entry only
\* when the submission of its task succeeded; when the submission fails they
\* stay as they were.
C9_CountersOnlyOnSuccess ==
    [][\A t \in Ticks : (tick[t].pc = "replace" /\ tick'[t] # tick[t]) =>
          LET k == tick[t].item.id IN
            (tasks[nextTask - 1] = Null) =>
                /\ sched'[k].run_number = sched[k].run_number
                /\ sched'[k].last_run_time = sched[k].last_run_time
                /\ sched'[k].last_run_date = sched[k].last_run_date
      ]_vars

----------------------------------------------------------------------------
(* Properties under interleaving, checked under SpecConc *)

\* C3: the run counter of an entry never decreases, and it changes only in
\* the write-back of a tick that fired the entry.
C3_RunCounterMonotone ==
    [][\A k \in Ids : (sched[k] # Null /\ sched'[k] # Null) =>
          /\ sched'[k].run_number >= sched[k].run_number
          /\ sched'[k].run_number # sched[k].run_number =>
               \E t \in Ticks : /\ tick[t].pc = "replace" /\ tick'[t] # tick[t]
                                /\ tick[t].item.id = k
      ]_vars

\* C6: a tick that started after a stop of an entry completed, with no recover
\* called on the entry since, neither submits a task for the entry nor changes
\* its run counter or last-run fields.
C6_NoFireWhileStopped ==
    [][\A t \in Ticks : \A k \in tick[t].after :
          /\ (TickDecides(t) /\ TickItem(t).id = k) => tick'[t].pc # "submit"
          /\ (tick[t].pc \in {"submit", "replace"} /\ tick'[t] # tick[t]
                 /\ tick[t].item.id = k /\ sched[k] # Null /\ sched'[k] # Null) =>
               /\ sched'[k].run_number = sched[k].run_number
               /\ sched'[k].last_run_time = sched[k].last_run_time
               /\ sched'[k].last_run_date = sched[k].last_run_date
      ]_vars

----------------------------------------------------------------------------
(* Properties of delete, checked under SpecDelete *)

\* C7: when delete returns Success, the entries it was called on are gone and
\* no task record and no event record of theirs remains; no step of delete
\* changes an entry, a task record or an event record of another entry.
C7_DeleteCascades ==
    /\ []((api.pc = "return" /\ api.op = "delete" /\ api.ret = "Success") =>
            \A k \in Range(api.ids) :
              /\ sched[k] = Null
              /\ \A j \in TaskIds :
                    tasks[j] # Null => tasks[j].github_repo_scheduler_id # k
              /\ \A e \in events : e.github_repo_scheduler_id # k)
    /\ [][(api.op = "delete" /\ api' # api) =>
            /\ \A k \in Ids \ Range(api.ids) : sched'[k] = sched[k]
            /\ \A j \in TaskIds :
                  (tasks[j] # Null /\ tasks[j].github_repo_scheduler_id \notin Range(api.ids))
                      => tasks'[j] = tasks[j]
            /\ {e \in events' : e.github_repo_scheduler_id \notin Range(api.ids)}
                  = {e \in events : e.github_repo_scheduler_id \notin Range(api.ids)}
         ]_vars

\* delete of entry 1, whose task had run and saved events, has returned; entry
\* 2, its finished task and its events are still there
C7_Witness ==
    /\ api.pc = "return" /\ api.op = "delete" /\ api.ret = "Success"
    /\ api.ids = <<1>>
    /\ \E n \in notified : n.scheduler_id = 1
    /\ sched[2] # Null
    /\ \E j \in TaskIds : /\ tasks[j] # Null
                          /\ tasks[j].github_repo_scheduler_id = 2
                          /\ tasks[j].status = DONE
    /\ \E e \in events : e.github_repo_scheduler_id = 2

----------------------------------------------------------------------------
(* Properties of the task body, checked under SpecTask *)

\* C10: the status of a task record moves forward from WAITING through the
\* phase labels to DONE or ERROR, and a record that is DONE or ERROR never
\* changes to another status, whatever store write fails.
C10_TerminalStatus ==
    [][\A k \in TaskIds : (tasks[k] # Null /\ tasks'[k] # Null
                             /\ tasks'[k].status # tasks[k].status) =>
          /\ tasks[k].status \notin {DONE, ERROR}
          /\ tasks'[k].status # WAITING
      ]_vars

----------------------------------------------------------------------------
(* Properties of a task execution *)

PhaseLabels == {"fetching events"} \cup {SavingLabel(n) : n \in 0..3}

\* C11: a task execution the worker has started ends, with the record DONE or
\* ERROR and its end time set, whether the body succeeded or an operation of
\* fetch, save, notification or statistics raised; and a record that carries
\* a phase label has its start time set.  Checked under SpecBody.
C11_ExecutionEnds ==
    /\ \A k \in TaskIds :
          (worker[1].pc # "idle" /\ worker[1].task_id = k)
              ~> (/\ worker[1].pc = "idle"
                  /\ tasks[k] # Null
                  /\ tasks[k].status \in {DONE, ERROR}
                  /\ tasks[k].end_time # Dash)
    /\ [](\A k \in TaskIds :
            (tasks[k] # Null /\ tasks[k].status \in PhaseLabels)
                => tasks[k].start_time # Dash)

\* an execution in which an operation of the body raised has ended in ERROR,
\* with start and end time set
C11_Witness ==
    /\ worker[1].pc = "idle"
    /\ tasks[1] # Null
    /\ tasks[1].status = ERROR
    /\ tasks[1].start_time # Dash
    /\ tasks[1].end_time # Dash
    /\ tasks[1].statistic = Null

\* C12: while the token is unset, an execution writes no phase label and no
\* start time, calls no fetch, persists no event and sends no notification, and
\* when it returns the record is ERROR with its end time set.  Checked under
\* SpecRun.
C12_MissingToken ==
    [][(~config.GITHUB_TOKEN /\ worker' # worker) =>
          /\ worker'[1].pc \in {"idle", "token_error", "token_end"}
          /\ worker'[1].http = -1
          /\ events' = events
          /\ notified' = notified
          /\ \A k \in TaskIds : tasks'[k] # Null =>
                /\ tasks'[k].status \in {WAITING, ERROR}
                /\ tasks'[k].start_time = Dash
          /\ (worker[1].pc # "idle" /\ worker'[1].pc = "idle") =>
                /\ tasks'[worker[1].task_id].status = ERROR
                /\ tasks'[worker[1].task_id].end_time # Dash
      ]_vars

\* with the token unset a submitted task has been executed
C12_Witness ==
    /\ ~config.GITHUB_TOKEN
    /\ worker[1].pc = "idle"
    /\ tasks[1] # Null
    /\ tasks[1].status = ERROR
    /\ tasks[1].end_time # Dash
    /\ events = {}
    /\ notified = {}

\* the events of the batch of worker 1 that the store holds for its schedule id
BatchPersisted ==
    \A i \in 1..Len(worker[1].events) :
        \E e \in events : /\ e.event_id = worker[1].events[i].event_id
                          /\ e.github_repo_scheduler_id = worker[1].scheduler_id

C14_OnlyNewNotified ==
    /\ worker[1].pc \in {"notify", "statistic"}
          => \A i \in 1..Len(worker[1].events) :
                [event_id |-> worker[1].events[i].event_id,
                 github_repo_scheduler_id |-> worker[1].scheduler_id,
                 github_repo_task_id |-> worker[1].task_id] \in events
    /\ \A n \in notified :
          \A i \in 1..Len(n.events) :
              [event_id |-> n.events[i].event_id,
               github_repo_scheduler_id |-> n.scheduler_id,
               github_repo_task_id |-> n.task_id] \in events

\* C15: every event a scheduled run keeps has a type of the monitored event
\* types configured on the schedule entry that owns the run; events of any
\* other type are filtered out.
C15_OnlyConfiguredTypes ==
    \A w \in Workers :
        (worker[w].pc # "idle" /\ sched[worker[w].scheduler_id] # Null)
            => \A i \in 1..Len(worker[w].events) :
                  worker[w].events[i].type
                      \in Range(sched[worker[w].scheduler_id].monitored_events)

\* the DONE tasks of schedule entry sid, and those of them with an end time
DoneTasks(sid) ==
    {k \in TaskIds : /\ tasks[k] # Null
                     /\ tasks[k].github_repo_scheduler_id = sid
                     /\ tasks[k].status = DONE}

DoneEnded(sid) == {k \in DoneTasks(sid) : tasks[k].end_time # Dash}

FetchFailed(w) == w.http \notin {-1, 200}

\* C17: when the events endpoint answers with a status other than 200 or the
\* call raises a transport error, the fetch returns an empty result and does
\* not raise; the task then persists no event, sends no notification, and
\* ends DONE with event_count 0 and its end time set.
C17_FetchFailureDegrades ==
    [][LET w  == worker[1]
           w2 == worker'[1]
       IN  /\ (w.pc = "fetch" /\ w2.pc # "fetch" /\ FetchFailed(w2))
                => w2.pc = "saving" /\ w2.events = <<>>
           /\ (FetchFailed(w) /\ w2 # w)
                => /\ events' = events
                   /\ notified' = notified
                   /\ w2.pc \in {"notify", "statistic", "done", "finally", "idle"}
                   /\ w2.pc = "idle"
                        => /\ tasks'[w.task_id].status = DONE
                           /\ tasks'[w.task_id].statistic = [event_count |-> 0]
                           /\ tasks'[w.task_id].end_time # Dash]_vars

\* a run whose fetch got a 500 has written DONE and event_count 0
C17_Witness ==
    /\ worker[1].pc = "finally"
    /\ worker[1].http = 500
    /\ tasks[worker[1].task_id].status = DONE
    /\ tasks[worker[1].task_id].statistic = [event_count |-> 0]
    /\ \A e \in events : e.github_repo_task_id # worker[1].task_id
    /\ \A n \in notified : n.task_id # worker[1].task_id

\* C18: notifying with an empty list of events performs no channel call and
\* returns without error. push_msg called with no new result returns at once
\* with no channel called, and send_notification of a run with no event
\* posts nothing to the webhook and goes on to the statistics.
C18_EmptyNotifyIsNoOp ==
    [][/\ (push.pc = "idle" /\ push'.pc # "idle" /\ push'.new_results = <<>>)
            => push'.pc = "return" /\ push'.calls = <<>> /\ push'.results = <<>>
       /\ (push.pc # "idle" /\ push.new_results = <<>> /\ push' # push)
            => push'.calls = <<>> /\ push'.pc = "idle"
       /\ (worker[1].pc = "notify" /\ worker[1].events = <<>> /\ worker' # worker)
            => /\ notified' = notified
               /\ worker'[1].pc = "statistic"
               /\ worker'[1].sent = "empty"]_vars

\* push_msg has returned from a call with no new result while both channels
\* are configured
C18_Witness ==
    /\ push.pc = "return"
    /\ push.new_results = <<>>
    /\ push.dingding
    /\ push.email
    /\ push.calls = <<>>

\* how a notification of a non-empty batch fails
NotifyFailures == {"raise", "errcode", "unconfigured"}

\* C19: a notification failure never fails the task. When the webhook call
\* raises, returns a non-zero error code, or the webhook URL is not
\* configured, the run goes on to the statistics and ends DONE with its
\* event count and end time recorded, and the events persisted before the
\* notification stay persisted.
C19_NotifyFailureIsolated ==
    [][LET w  == worker[1]
           w2 == worker'[1]
       IN  /\ (w.pc = "notify" /\ w2.pc # "notify")
                => w2.pc = "statistic" /\ events' = events /\ tasks' = tasks
           /\ (w.sent \in NotifyFailures /\ w2 # w)
                => /\ events' = events
                   /\ BatchPersisted
                   /\ w2.pc \in {"done", "finally", "idle"}
                   /\ w2.pc = "idle"
                        => /\ tasks'[w.task_id].status = DONE
                           /\ tasks'[w.task_id].statistic = [event_count |-> Len(w.events)]
                           /\ tasks'[w.task_id].end_time # Dash]_vars

\* a run whose webhook call raised has recorded its statistics and DONE, and
\* its events are persisted
C19_Witness ==
    /\ worker[1].pc = "finally"
    /\ worker[1].sent = "raise"
    /\ worker[1].events # <<>>
    /\ BatchPersisted
    /\ tasks[worker[1].task_id].status = DONE
    /\ tasks[worker[1].task_id].statistic = [event_count |-> Len(worker[1].events)]

\* C20: the two channels of push_msg are attempted independently, the
\* webhook first and the email second. For a non-empty batch push_email is
\* entered whether the webhook call succeeded, returned an error code,
\* raised or was not configured, and push_msg returns after both whatever
\* the email call did; no failure leaves the dispatch.
C20_ChannelsIndependent ==
    [][/\ (push.pc = "idle" /\ push'.pc # "idle" /\ push'.new_results # <<>>)
            => push'.pc = "dingding" /\ push'.results = <<>> /\ push'.calls = <<>>
       /\ (push.pc = "dingding" /\ push' # push)
            => /\ push'.pc = "email"
               /\ Len(push'.results) = 1
               /\ push'.calls = IF push.dingding THEN <<"dingding">> ELSE <<>>
       /\ (push.pc = "email" /\ push' # push)
            => /\ push'.pc = "return"
               /\ Len(push'.results) = 2
               /\ push'.results[1] = push.results[1]
               /\ push'.calls = IF push.email THEN Append(push.calls, "email")
                                ELSE push.calls
       /\ (push.pc = "return" /\ push' # push) => push'.pc = "idle"]_vars

\* push_msg has returned after the webhook call raised and the email was
\* sent all the same
C20_Witness ==
    /\ push.pc = "return"
    /\ push.new_results # <<>>
    /\ push.results = <<"raise", "ok">>
    /\ push.calls = <<"dingding", "email">>

\* C21: a failure on one entry does not abort the tick. A tick ends only
\* after the last entry it read, it passes from an entry to the next one
\* without skipping any, whether the entry was left alone, fired or failed
\* (the insert of the task or the write-back of the entry raised), and every
\* entry it reaches that satisfies the fire condition is submitted.
C21_TickSurvivesFailure ==
    [][\A t \in Ticks :
          (tick[t].pc # "idle" /\ tick'[t] # tick[t])
              => /\ tick'[t].pc = "idle" => tick[t].i = Len(tick[t].items)
                 /\ tick'[t].pc # "idle"
                      => /\ tick'[t].items = tick[t].items
                         /\ tick'[t].i \in {tick[t].i, tick[t].i + 1}
                         /\ tick'[t].i = tick[t].i + 1 => tick'[t].pc = "eval"
                 /\ (tick[t].pc = "eval" /\ ShouldRun(TickItem(t).doc))
                      => tick'[t].pc = "submit" /\ tick'[t].i = tick[t].i]_vars

\* a tick submits its second entry after it failed on the first: the first
\* was due, and its write-back did not happen
C21_Witness ==
    /\ tick[1].pc = "replace"
    /\ tick[1].i = 2
    /\ ShouldRun(tick[1].items[1].doc)
    /\ sched[tick[1].items[1].id] = tick[1].items[1].doc
    /\ \E k \in TaskIds : tasks[k] # Null
                            /\ tasks[k].github_repo_scheduler_id = tick[1].items[2].id

\* the strings that are empty once trimmed
Blank == {"", " "}

\* C22: create with a valid cron expression and an owner and a repository
\* name that are not empty persists exactly one new entry, RUNNING, with run
\* counter 0 and a next-run time not before now, and touches no other entry;
\* create with an invalid cron expression, or with an owner or a repository
\* name that is empty once trimmed, returns an error and persists nothing.
C22_CreateValidates ==
    [][\A name \in NameInputs, owner \in OwnerInputs, repo \in RepoInputs,
          cron \in CronInputs :
          Create(name, owner, repo, cron, <<>>)
              => IF cron \in {Cron3, Cron5} /\ owner \notin Blank /\ repo \notin Blank
                   THEN /\ api'.ret = "Success"
                        /\ \E k \in Ids :
                              /\ sched[k] = Null
                              /\ sched'[k] # Null
                              /\ sched'[k].status = RUNNING
                              /\ sched'[k].run_number = 0
                              /\ sched'[k].next_run_date # Dash
                              /\ sched'[k].next_run_date[1] >= now
                              /\ sched'[k].cron = cron
                              /\ sched'[k].repo_owner \notin Blank
                              /\ sched'[k].repo_name \notin Blank
                              /\ \A j \in Ids \ {k} : sched'[j] = sched[j]
                   ELSE /\ api'.ret # "Success"
                        /\ sched' = sched]_vars

\* the second create has returned Success: two entries, each RUNNING with
\* run counter 0
C22_Witness ==
    /\ api.pc = "return"
    /\ api.op = "create"
    /\ api.ret = "Success"
    /\ api.ids = <<2>>
    /\ sched[2] # Null
    /\ sched[2].status = RUNNING
    /\ sched[2].run_number = 0
    /\ sched[1] # Null

\* C23: update on an absent id answers JobNotFound and changes nothing; with
\* a cron expression that is refused it fails and the stored entry stays as
\* it was, the other fields of the request included; otherwise the entry it
\* writes is the stored one with only the non-empty fields of the request
\* overwritten, next-run recomputed only if a cron expression came with the
\* request, and status, run counter and last-run fields as they were.
C23_UpdateFrame ==
    [][/\ \A id \in Ids, args \in UpdateArgs :
             UpdateFind(id, args)
                 => /\ sched' = sched
                    /\ IF sched[id] = Null
                         THEN api'.pc = "return" /\ api'.ret = "JobNotFound"
                       ELSE IF args.cron \notin {"", Cron3, Cron5}
                         THEN api'.pc = "return" /\ api'.ret \notin {"Success", "JobNotFound"}
                       ELSE LET old == sched[id]
                                new == api'.item.doc
                            IN  /\ api'.pc = "replace"
                                /\ api'.item.id = id
                                /\ new.name = IF args.name = "" THEN old.name ELSE args.name
                                /\ new.repo_owner = IF args.repo_owner = "" THEN old.repo_owner
                                                    ELSE Strip(args.repo_owner)
                                /\ new.repo_name = IF args.repo_name = "" THEN old.repo_name
                                                   ELSE Strip(args.repo_name)
                                /\ new.monitored_events =
                                       IF args.monitored_events = <<>>
                                         THEN old.monitored_events ELSE args.monitored_events
                                /\ new.cron = IF args.cron = "" THEN old.cron ELSE args.cron
                                /\ new.next_run_date =
                                       IF args.cron = "" THEN old.next_run_date
                                       ELSE <<now + CronNext(args.cron, now)>>
                                /\ new.status = old.status
                                /\ new.run_number = old.run_number
                                /\ new.last_run_date = old.last_run_date
                                /\ new.last_run_time = old.last_run_time
       /\ (api.op = "update" /\ api.pc = "replace" /\ api' # api)
             => /\ api'.pc = "return" /\ api'.ret = "Success"
                /\ sched'[api.item.id] = api.item.doc
                /\ \A j \in Ids \ {api.item.id} : sched'[j] = sched[j]
       /\ (api.op = "update" /\ api.pc = "return") => sched' = sched]_vars

\* an update with a new owner and a cron expression has been written to an
\* entry that had run once: the owner is trimmed, the run counter is kept
C23_Witness ==
    /\ api.op = "update"
    /\ api.pc = "return"
    /\ api.ret = "Success"
    /\ sched[1] # Null
    /\ sched[1].repo_owner = "o2"
    /\ sched[1].run_number = 1
    /\ sched[1].last_run_time = StartTime

\* the parts of the markdown of one kind
MdParts(kind) == SelectSeq(report.markdown, LAMBDA part : part.part = kind)

\* C24: for a batch of n events the markdown lists exactly min(n, 10)
\* events, in the order of the batch; it ends with the note on the events
\* not shown if and only if n > 10, and the note then reports n - 10; for
\* n = 0 it is the 'no new events' text with the owner and the repository.
C24_MarkdownLimit ==
    report.markdown # <<>>
        => LET n      == Len(report.events)
               listed == MdParts("event")
               more   == MdParts("more")
           IN  /\ Len(listed) = IF n < 10 THEN n ELSE 10
               /\ \A i \in 1..Len(listed) :
                     listed[i].event = report.events[i] /\ listed[i].idx = i
               /\ (more # <<>>) <=> (n > 10)
               /\ n > 10 => /\ Len(more) = 1
                            /\ more[1].n = n - 10
                            /\ report.markdown[Len(report.markdown)].part = "more"
               /\ (n = 0) <=> (MdParts("empty") # <<>>)
               /\ n = 0 => /\ Len(report.markdown) = 1
                           /\ report.markdown[1].repo = <<"o1", "r1">>
               /\ n > 0 => /\ report.markdown[1].part = "header"
                           /\ report.markdown[1].n = n
                           /\ report.markdown[1].repo = <<"o1", "r1">>

\* the markdown of a batch of 12 events: 10 listed, 2 reported as not shown
C24_Witness ==
    /\ Len(report.events) = 12
    /\ report.markdown # <<>>
    /\ Len(MdParts("event")) = 10
    /\ MdParts("more") # <<>>
    /\ MdParts("more")[1].n = 2

\* C25: the html report holds the tables of at most 5 repositories, and at
\* most 10 rows in the table of each repository.
C25_HtmlLimit ==
    report.html # <<>>
        => /\ Len(report.html[1].tables) <= 5
           /\ \A i \in 1..Len(report.html[1].tables) :
                 Len(report.html[1].tables[i].rows) <= 10

\* C26: after a tick fires an entry at time now, the stored next-run
\* display is strictly later than now and is a fire instant of the entry's
\* cron expression.
C26_NextRunOnBoundary ==
    [][\A t \in Ticks :
          (tick[t].pc = "replace" /\ tick'[t] # tick[t] /\ sched' # sched)
              => LET e == sched'[tick[t].item.id]
                 IN  /\ e.next_run_date # Dash
                     /\ e.next_run_date[1] > now
                     /\ e.next_run_date[1] % CronPeriod(e.cron) = 0]_vars

\* C27: within a run the record of an event is persisted before the event
\* is sent to the notification channel. On the step that dispatches a
\* notification a record with the event id and the schedule id of each of
\* its events is in the store already, and a run stands at the notification
\* only with its whole batch persisted.
C27_PersistedBeforeNotified ==
    /\ [][\A n \in notified' \ notified :
            \A i \in 1..Len(n.events) :
                \E e \in events : /\ e.event_id = n.events[i].event_id
                                  /\ e.github_repo_scheduler_id = n.scheduler_id]_vars
    /\ [](worker[1].pc = "notify" => BatchPersisted)

\* the notification of a batch of two events has gone out, both persisted
\* by the same run
C27_Witness ==
    /\ worker[1].pc = "statistic"
    /\ worker[1].sent = "ok"
    /\ Len(worker[1].events) = 2
    /\ worker[1].events[1].event_id # worker[1].events[2].event_id
    /\ \E n \in notified : n.task_id = worker[1].task_id /\ n.events = worker[1].events
    /\ \A i \in 1..2 :
          [event_id |-> worker[1].events[i].event_id,
           github_repo_scheduler_id |-> worker[1].scheduler_id,
           github_repo_task_id |-> worker[1].task_id] \in events

\* C28: no lock keeps two tick invocations apart. A tick can start while
\* another one runs, and it decides on the copy of the entry it read,
\* whatever the other tick has done since; so two ticks that both read the
\* entry before either wrote its last-run time both submit a task for it,
\* for the same cron boundary.
C28_NoTickLock ==
    /\ [](\A t \in Ticks : tick[t].pc = "idle" => ENABLED TickFind(t))
    /\ [][\A t \in Ticks :
            (tick[t].pc = "eval" /\ tick'[t] # tick[t])
                => ((tick'[t].pc = "submit") <=> ShouldRun(TickItem(t).doc))]_vars

\* two ticks have each submitted a task for entry 1 at the same instant,
\* and neither has written the last-run time yet
C28_Witness ==
    /\ tick[1].pc = "replace" /\ tick[1].item.id = 1
    /\ tick[2].pc = "replace" /\ tick[2].item.id = 1
    /\ sched[1].run_number = 0
    /\ tasks[1] # Null /\ tasks[1].github_repo_scheduler_id = 1
    /\ tasks[2] # Null /\ tasks[2].github_repo_scheduler_id = 1
    /\ Cardinality({m \in queue : m.scheduler_id = 1}) = 2

\* C29: the check and the insert of save_events are two steps with no lock
\* between them. A run that found no record of an event inserts its record
\* whatever was inserted since, so two runs of one entry that fetch the same
\* event at the same time both find it new, both insert a record of it and
\* both notify it.
C29_DedupNotAtomic ==
    [][\A w \in Workers :
          /\ (worker[w].pc = "save_find" /\ worker'[w].pc = "save_insert")
                => ~\E e \in events :
                       /\ e.event_id = worker[w].events[worker[w].i].event_id
                       /\ e.github_repo_scheduler_id = worker[w].scheduler_id
          /\ (worker[w].pc = "save_insert" /\ worker'[w] # worker[w])
                => [event_id |-> worker[w].events[worker[w].i].event_id,
                    github_repo_scheduler_id |-> worker[w].scheduler_id,
                    github_repo_task_id |-> worker[w].task_id] \in events'
          /\ (worker[w].pc = "notify" /\ worker'[w] # worker[w] /\ worker[w].events # <<>>)
                => [task_id |-> worker[w].task_id,
                    scheduler_id |-> worker[w].scheduler_id,
                    events |-> worker[w].events] \in notified']_vars

\* two runs of entry 1 have each inserted a record of evt-1 and each
\* notified it
C29_Witness ==
    /\ \A k \in {1, 2} :
          /\ [event_id |-> "evt-1", github_repo_scheduler_id |-> 1,
              github_repo_task_id |-> k] \in events
          /\ \E n \in notified :
                /\ n.task_id = k
                /\ n.scheduler_id = 1
                /\ \E i \in 1..Len(n.events) : n.events[i].event_id = "evt-1"

\* C30: a run whose read of the last DONE task raised in the store (the
\* fetch ended with no response while the token is set) does not end DONE.
C30_StoreFailureEndsError ==
    \A w \in Workers :
        (/\ worker[w].pc = "finally"
         /\ config.GITHUB_TOKEN
         /\ worker[w].http = -1
         /\ HasTask(worker[w].task_id))
            => tasks[worker[w].task_id].status # DONE

----------------------------------------------------------------------------
(* Properties of interleaved requests, ticks and runs *)

\* C31: the status of an entry changes only in the write of a stop or of a
\* recover, also when the steps of requests and of a tick interleave: the
\* write-back of a tick or of an update leaves the status as the store has it.
C31_StatusOnlyByStopRecover ==
    [][\A k \in Ids :
          (sched[k] # Null /\ sched'[k] # Null /\ sched'[k].status # sched[k].status)
              => /\ api.op \in {"stop", "recover"}
                 /\ api.pc = "replace"
                 /\ api' # api]_vars

\* C32: a STOPPED entry shows "-" as its next run and a RUNNING entry shows
\* a timestamp, whatever requests and ticks have run, one after another.
C32_StoppedShowsDash ==
    \A k \in Ids :
        sched[k] # Null =>
            /\ sched[k].status = STOP => sched[k].next_run_date = Dash
            /\ sched[k].status = RUNNING => sched[k].next_run_date # Dash

\* C33: with invocations of the driver that do not overlap and follow each
\* other less than 60 s apart, a RUNNING entry of a period of 5 minutes or
\* more is fired once for every fire instant of its expression: when the
\* clock passes a fire instant the entry has been fired in the minute before
\* it (a new entry at its first fire instant too), and an entry is not fired
\* again in the minute it was fired in.
C33_OncePerBoundary ==
    [][\A k \in Ids :
          (sched[k] # Null /\ sched[k].status = RUNNING /\ CronPeriod(sched[k].cron) >= 300)
            => LET boundary == now + CronNext(sched[k].cron, now) IN
                 /\ now' >= boundary => sched[k].last_run_time > boundary - 60
                 /\ (tick[1].pc = "eval" /\ tick'[1].pc = "submit" /\ tick'[1].item.id = k)
                       => tick'[1].item.doc.last_run_time <= boundary - 60]_vars

\* C34: when the runs of an entry follow one another, the store never holds
\* two records of one event id for one schedule id, whatever the runs fetched
\* (the same event in two runs, or twice in one batch).
C34_OneRecordPerEvent ==
    \A e1 \in events, e2 \in events :
        (e1.event_id = e2.event_id
            /\ e1.github_repo_scheduler_id = e2.github_repo_scheduler_id) => e1 = e2

\* the second run of entry 1 has been through a batch that lists evt-1 twice,
\* and evt-1 was recorded by the first run
C34_Witness ==
    /\ worker[1].pc = "notify"
    /\ worker[1].task_id = 2
    /\ worker[1].scheduler_id = 1
    /\ Len(worker[1].events) = 2
    /\ worker[1].events[1].event_id = "evt-1"
    /\ worker[1].events[2].event_id = "evt-1"
    /\ [event_id |-> "evt-1", github_repo_scheduler_id |-> 1,
        github_repo_task_id |-> 1] \in events

\* C35: stop and recover go through their ids in list order, one id at a
\* time. A step of the request changes the entry of the id it stands at and
\* no other, and only to the status the request gives; the request returns
\* an error at the first id that is not found or not in the status it
\* expects, without changing anything in that step, with every id before it
\* transitioned; it returns Success only past the last id, with every id of
\* the list transitioned.
C35_StopsAtFirstFailure ==
    [][(api.op \in {"stop", "recover"} /\ api.pc # "return") =>
          LET target == IF api.op = "stop" THEN STOP ELSE RUNNING
              from   == IF api.op = "stop" THEN RUNNING ELSE STOP
              item   == find_github_repo_scheduler(api.ids[api.i])
          IN  /\ \A k \in Ids :
                    sched'[k] # sched[k] =>
                        /\ k = api.ids[api.i]
                        /\ api.pc = "replace"
                        /\ sched[k] # Null /\ sched'[k] # Null
                        /\ sched[k].status = from /\ sched'[k].status = target
              /\ (api'.pc = "return" /\ api'.ret # "Success") =>
                    /\ api.pc = "check"
                    /\ sched' = sched
                    /\ item = NoItem \/ item.doc.status # from
                    /\ \A j \in 1..(api.i - 1) :
                          /\ sched[api.ids[j]] # Null
                          /\ sched[api.ids[j]].status = target
              /\ (api'.pc = "return" /\ api'.ret = "Success") =>
                    /\ api.i = Len(api.ids)
                    /\ \A j \in 1..Len(api.ids) :
                          /\ sched'[api.ids[j]] # Null
                          /\ sched'[api.ids[j]].status = target
              /\ api'.pc # "return" =>
                    /\ api'.ids = api.ids
                    /\ api'.i \in {api.i, api.i + 1}
                    /\ api'.i = api.i + 1 => api.pc = "replace"]_vars

\* stop was called on <<1, 2>> with entry 1 running and no entry 2: it has
\* stopped entry 1 and returned JobNotFound
C35_Witness ==
    /\ api = ApiReturn("stop", <<1, 2>>, "JobNotFound")
    /\ sched[1] # Null /\ sched[1].status = STOP
    /\ sched[2] = Null

\* C36: when submit has returned, the work it enqueued has its task record
\* in the store.
C36_EnqueuedHasRecord ==
    [][\A t \in Ticks :
          (tick[t].pc = "submit" /\ tick'[t] # tick[t])
              => \A m \in queue' \ queue : tasks'[m.task_id] # Null]_vars

\* C37: an entry that was deleted is not created again by work that was in
\* flight when it was deleted, and once that work is over (no request, tick
\* or run in progress, nothing queued) the store holds no task record and no
\* event record with its schedule id.
C37_DeleteIsFinal ==
    /\ [][\A k \in Ids : (k < nextId /\ sched[k] = Null) => sched'[k] = Null]_vars
    /\ []((~ApiBusy /\ ~TickBusy /\ ~WorkerBusy /\ queue = {}) =>
            \A k \in Ids :
                (k < nextId /\ sched[k] = Null) =>
                    /\ \A j \in TaskIds :
                          tasks[j] # Null => tasks[j].github_repo_scheduler_id # k
                    /\ \A e \in events : e.github_repo_scheduler_id # k)

====
